---- MODULE Spec2Model ----
(***************************************************************************)
(* Tennis scorekeeper: the scoring engine (src/src/domain/tennis.ts), its  *)
(* event log reducer (getEffectiveEvents, replay) and the state they are   *)
(* applied to.                                                             *)
(*                                                                         *)
(* Encoding of the TypeScript values:                                      *)
(*   PointScore 0 | 15 | 30 | 40 | "AD"  ->  "0" "15" "30" "40" "AD"       *)
(*   BestOf     1 | 3 | 5 | "practice"   ->  "1" "3" "5" "practice"        *)
(*   winner?: TeamSide (optional)        ->  "none" when undefined         *)
(*   currentSetIndex is 0-based as in the code; sets is a 1-based sequence,*)
(*   so the live set is sets[currentSetIndex + 1].                         *)
(*   a thrown Error                      ->  the record [error |-> msg]    *)
(*   MatchState.teams and the events' createdAt are carried through by the *)
(*   code and never read by it; they are left out.  ruleset.matchType is   *)
(*   never read either and only "singles" is drawn.                        *)
(***************************************************************************)
EXTENDS Integers, Sequences, FiniteSets, TLC

VARIABLES
    state,      \* engine run: the MatchState after the points applied so far
    prev,       \* engine run: the MatchState the last applyPointWon call was given
    lastSide,   \* engine run: the side of the last applyPointWon call, "none" before any
    log,        \* reducer run: the raw event list (MatchEvent[])
    replayed,   \* reducer run: replay(log), the state a load of the log builds
    stored,     \* scoring page: the match's rows of db.events, in getMatchEvents order
    matchRecord,\* scoring page: the status of the match's row of db.matches
    matchState, \* scoring page: the React state matchState (NoState for null)
    allEvents,  \* scoring page: the React state allEvents
    loading,    \* scoring page: the React state loading
    inflight,   \* scoring page: the handler invocations that have not returned yet
    applied,    \* scoring page: the ids of the events matchState was built from
    used        \* scoring page: the taps and crashes that have happened so far

engineVars == <<state, prev, lastSide>>

reducerVars == <<log, replayed>>

pageVars == <<stored, matchRecord, matchState, allEvents, loading, inflight, applied, used>>

vars == <<state, prev, lastSide, log, replayed,
          stored, matchRecord, matchState, allEvents, loading, inflight, applied, used>>

(***************************************************************************)
(* Bounds of the model                                                     *)
(***************************************************************************)
\* a point is played only while both game counts of the live set are below this
MaxGames == 8
\* a tiebreak point is played only while both tiebreak scores are below this
MaxTb == 8
\* a point is played only while at most this many completed sets were not won to love
MaxCloseSets == 0
\* a raw log opens with at most this many points won in a row by one side ...
MaxRun == 7
\* ... followed by at most this many further events of any type
MaxTail == 2
\* an UNDO, REDO or POINT_ANNOTATED appended to a log targets MATCH_CREATED, one
\* of the last TargetWindow events, or the id of the event that will follow it
TargetWindow == 2
\* the scoring page takes at most this many taps on its buttons ...
MaxTaps == 3
\* ... of which at most this many are being handled at the same time
MaxInflight == 2
\* the scoring page crashes and is reloaded at most this many times
MaxCrashes == 1

(***************************************************************************)
(* Types (src/unnamed/part_001)                                            *)
(***************************************************************************)
TeamSide == {"A", "B"}

BestOf == {"1", "3", "5", "practice"}

TiebreakPolicy == {"none", "7pt"}

Ruleset == [bestOf : BestOf, tiebreak : TiebreakPolicy, matchType : {"singles"}]

(***************************************************************************)
(* Scoring engine (src/src/domain/tennis.ts)                               *)
(***************************************************************************)
\* mutant: the progression skips 30
POINT_PROGRESSION_Skips30 == ("0" :> "15") @@ ("15" :> "40") @@ ("30" :> "40")

\* mutant: the progression has no entry for 30
POINT_PROGRESSION_StopsAt30 == ("0" :> "15") @@ ("15" :> "30")

POINT_PROGRESSION == ("0" :> "15") @@ ("15" :> "30") @@ ("30" :> "40")

freshGame == [kind |-> "normal", pointsA |-> "0", pointsB |-> "0", deuce |-> FALSE]

freshTiebreak == [kind |-> "tiebreak", tbA |-> 0, tbB |-> 0, target |-> 7]

freshSet == [gamesA |-> 0, gamesB |-> 0, game |-> freshGame]

\* mutant: a practice match starts in a normal game like any other match
initMatchState_AlwaysNormal(matchId, ruleset, server) ==
    [ matchId         |-> matchId,
      ruleset         |-> ruleset,
      sets            |-> << [ gamesA |-> 0, gamesB |-> 0, game |-> freshGame ] >>,
      currentSetIndex |-> 0,
      setsWonA        |-> 0,
      setsWonB        |-> 0,
      server          |-> server,
      status          |-> "in_progress",
      winner          |-> "none" ]

initMatchState(matchId, ruleset, server) ==
    [ matchId         |-> matchId,
      ruleset         |-> ruleset,
      sets            |-> << [ gamesA |-> 0, gamesB |-> 0,
                               game |-> IF ruleset.bestOf = "practice"
                                        THEN freshTiebreak ELSE freshGame ] >>,
      currentSetIndex |-> 0,
      setsWonA        |-> 0,
      setsWonB        |-> 0,
      server          |-> server,
      status          |-> "in_progress",
      winner          |-> "none" ]

otherSide(side) == IF side = "A" THEN "B" ELSE "A"

\* the numeric BestOf values, as numbers
BestOfNumber(b) == CASE b = "1" -> 1 [] b = "3" -> 3 [] b = "5" -> 5

\* Math.ceil(n / 2) for n >= 0
CeilHalf(n) == (n + 1) \div 2

\* mutant: the number of sets needed is rounded down
setsNeeded_RoundedDown(ruleset) ==
    IF ruleset.bestOf = "practice" THEN 1
    ELSE BestOfNumber(ruleset.bestOf) \div 2

setsNeeded(ruleset) ==
    IF ruleset.bestOf = "practice" THEN 1
    ELSE CeilHalf(BestOfNumber(ruleset.bestOf))

Abs(n) == IF n < 0 THEN -n ELSE n

Error(msg) == [error |-> msg]

Threw(r) == "error" \in DOMAIN r

\* mutant: the set that decides the match is followed by a fresh set as well
winSet_AppendsWhenFinished(st, sets, winner) ==
    LET newSetsWonA == st.setsWonA + (IF winner = "A" THEN 1 ELSE 0)
        newSetsWonB == st.setsWonB + (IF winner = "B" THEN 1 ELSE 0)
        needed      == setsNeeded(st.ruleset)
    IN  IF newSetsWonA >= needed \/ newSetsWonB >= needed
        THEN [st EXCEPT !.sets = Append(sets, freshSet),
                        !.setsWonA = newSetsWonA,
                        !.setsWonB = newSetsWonB,
                        !.currentSetIndex = st.currentSetIndex + 1,
                        !.status = "finished",
                        !.winner = winner]
        ELSE [st EXCEPT !.sets = Append(sets, freshSet),
                        !.setsWonA = newSetsWonA,
                        !.setsWonB = newSetsWonB,
                        !.currentSetIndex = st.currentSetIndex + 1,
                        !.server = otherSide(st.server)]

\* mutant: a new set starts with the server of the set before
winSet_NoServerFlip(st, sets, winner) ==
    LET newSetsWonA == st.setsWonA + (IF winner = "A" THEN 1 ELSE 0)
        newSetsWonB == st.setsWonB + (IF winner = "B" THEN 1 ELSE 0)
        needed      == setsNeeded(st.ruleset)
    IN  IF newSetsWonA >= needed \/ newSetsWonB >= needed
        THEN [st EXCEPT !.sets = sets,
                        !.setsWonA = newSetsWonA,
                        !.setsWonB = newSetsWonB,
                        !.status = "finished",
                        !.winner = winner]
        ELSE [st EXCEPT !.sets = Append(sets, freshSet),
                        !.setsWonA = newSetsWonA,
                        !.setsWonB = newSetsWonB,
                        !.currentSetIndex = st.currentSetIndex + 1]

winSet(st, sets, winner) ==
    LET newSetsWonA == st.setsWonA + (IF winner = "A" THEN 1 ELSE 0)
        newSetsWonB == st.setsWonB + (IF winner = "B" THEN 1 ELSE 0)
        needed      == setsNeeded(st.ruleset)
    IN  IF newSetsWonA >= needed \/ newSetsWonB >= needed
        THEN [st EXCEPT !.sets = sets,
                        !.setsWonA = newSetsWonA,
                        !.setsWonB = newSetsWonB,
                        !.status = "finished",
                        !.winner = winner]
        ELSE [st EXCEPT !.sets = Append(sets, freshSet),
                        !.setsWonA = newSetsWonA,
                        !.setsWonB = newSetsWonB,
                        !.currentSetIndex = st.currentSetIndex + 1,
                        !.server = otherSide(st.server)]

\* mutant: the tiebreak policy of the ruleset is not consulted
needsTiebreak_AnyPolicy(ruleset, gamesA, gamesB) == gamesA = 6 /\ gamesB = 6

\* winGame: const needsTiebreak
needsTiebreak(ruleset, gamesA, gamesB) ==
    ruleset.tiebreak = "7pt" /\ gamesA = 6 /\ gamesB = 6

\* mutant: a one-game margin wins the set
setWon_MarginOne(gamesA, gamesB) ==
    (gamesA >= 6 \/ gamesB >= 6) /\ Abs(gamesA - gamesB) >= 1

\* winGame: const setWon
setWon(gamesA, gamesB) ==
    (gamesA >= 6 \/ gamesB >= 6) /\ Abs(gamesA - gamesB) >= 2

winGame(st, winner) ==
    LET i          == st.currentSetIndex + 1
        old        == st.sets[i]
        currentSet == IF winner = "A"
                      THEN [old EXCEPT !.gamesA = old.gamesA + 1]
                      ELSE [old EXCEPT !.gamesB = old.gamesB + 1]
        gamesA     == currentSet.gamesA
        gamesB     == currentSet.gamesB
    IN  IF needsTiebreak(st.ruleset, gamesA, gamesB)
        THEN [st EXCEPT !.sets = [st.sets EXCEPT ![i] =
                                    [currentSet EXCEPT !.game = freshTiebreak]],
                        !.server = otherSide(st.server)]
        ELSE IF setWon(gamesA, gamesB)
        THEN winSet(st,
                    [st.sets EXCEPT ![i] = [currentSet EXCEPT !.game = freshGame]],
                    winner)
        ELSE [st EXCEPT !.sets = [st.sets EXCEPT ![i] =
                                    [currentSet EXCEPT !.game = freshGame]],
                        !.server = otherSide(st.server)]

\* mutant: the game is written into the first set, not the live one
updateGame_WritesFirstSet(st, game) ==
    [st EXCEPT !.sets = [st.sets EXCEPT ![1] = [st.sets[1] EXCEPT !.game = game]]]

updateGame(st, game) ==
    [st EXCEPT !.sets = [st.sets EXCEPT ![st.currentSetIndex + 1] =
                            [st.sets[st.currentSetIndex + 1] EXCEPT !.game = game]]]

\* mutant: reaching 40-40 by the progression does not set the deuce flag
scoreNormalGame_DeuceNotSet(st, game, team) ==
    LET scorerPoints == IF team = "A" THEN game.pointsA ELSE game.pointsB
        otherPoints  == IF team = "A" THEN game.pointsB ELSE game.pointsA
        setScorer(g, p) == IF team = "A" THEN [g EXCEPT !.pointsA = p]
                                         ELSE [g EXCEPT !.pointsB = p]
    IN  IF scorerPoints = "40" \/ scorerPoints = "AD"
        THEN IF scorerPoints = "AD" THEN winGame(st, team)
             ELSE IF otherPoints = "AD"
                  THEN updateGame(st, [game EXCEPT !.pointsA = "40",
                                                   !.pointsB = "40",
                                                   !.deuce = TRUE])
             ELSE IF otherPoints = "40"
                  THEN updateGame(st, setScorer([game EXCEPT !.deuce = TRUE], "AD"))
             ELSE winGame(st, team)
        ELSE updateGame(st, setScorer(game, POINT_PROGRESSION[scorerPoints]))

\* mutant: the deuce branch is missing, so a point won at 40-40 wins the game
scoreNormalGame_NoDeuce(st, game, team) ==
    LET scorerPoints == IF team = "A" THEN game.pointsA ELSE game.pointsB
        otherPoints  == IF team = "A" THEN game.pointsB ELSE game.pointsA
        setScorer(g, p) == IF team = "A" THEN [g EXCEPT !.pointsA = p]
                                         ELSE [g EXCEPT !.pointsB = p]
    IN  IF scorerPoints = "40" \/ scorerPoints = "AD"
        THEN IF scorerPoints = "AD" THEN winGame(st, team)
             ELSE IF otherPoints = "AD"
                  THEN updateGame(st, [game EXCEPT !.pointsA = "40",
                                                   !.pointsB = "40",
                                                   !.deuce = TRUE])
             ELSE winGame(st, team)
        ELSE LET nextPoint == POINT_PROGRESSION[scorerPoints]
                 newGame   == setScorer(game, nextPoint)
             IN  IF nextPoint = "40" /\ otherPoints = "40"
                 THEN updateGame(st, [newGame EXCEPT !.deuce = TRUE])
                 ELSE updateGame(st, newGame)

\* mutant: a point won against an advantage leaves the advantage standing
scoreNormalGame_AdvantageKept(st, game, team) ==
    LET scorerPoints == IF team = "A" THEN game.pointsA ELSE game.pointsB
        otherPoints  == IF team = "A" THEN game.pointsB ELSE game.pointsA
        setScorer(g, p) == IF team = "A" THEN [g EXCEPT !.pointsA = p]
                                         ELSE [g EXCEPT !.pointsB = p]
    IN  IF scorerPoints = "40" \/ scorerPoints = "AD"
        THEN IF scorerPoints = "AD" THEN winGame(st, team)
             ELSE IF otherPoints = "AD"
                  THEN updateGame(st, [game EXCEPT !.deuce = TRUE])
             ELSE IF otherPoints = "40"
                  THEN updateGame(st, setScorer([game EXCEPT !.deuce = TRUE], "AD"))
             ELSE winGame(st, team)
        ELSE LET nextPoint == POINT_PROGRESSION[scorerPoints]
                 newGame   == setScorer(game, nextPoint)
             IN  IF nextPoint = "40" /\ otherPoints = "40"
                 THEN updateGame(st, [newGame EXCEPT !.deuce = TRUE])
                 ELSE updateGame(st, newGame)

scoreNormalGame(st, game, team) ==
    LET scorerPoints == IF team = "A" THEN game.pointsA ELSE game.pointsB
        otherPoints  == IF team = "A" THEN game.pointsB ELSE game.pointsA
        setScorer(g, p) == IF team = "A" THEN [g EXCEPT !.pointsA = p]
                                         ELSE [g EXCEPT !.pointsB = p]
    IN  IF scorerPoints = "40" \/ scorerPoints = "AD"
        THEN IF scorerPoints = "AD" THEN winGame(st, team)
             ELSE IF otherPoints = "AD"
                  THEN updateGame(st, [game EXCEPT !.pointsA = "40",
                                                   !.pointsB = "40",
                                                   !.deuce = TRUE])
             ELSE IF otherPoints = "40"
                  THEN updateGame(st, setScorer([game EXCEPT !.deuce = TRUE], "AD"))
             ELSE winGame(st, team)
        ELSE IF scorerPoints \notin DOMAIN POINT_PROGRESSION
             THEN Error("Invalid point score")
             ELSE LET nextPoint == POINT_PROGRESSION[scorerPoints]
                      newGame   == setScorer(game, nextPoint)
                  IN  IF nextPoint = "40" /\ otherPoints = "40"
                      THEN updateGame(st, [newGame EXCEPT !.deuce = TRUE])
                      ELSE updateGame(st, newGame)

\* mutant: the two-point margin is not required
tiebreakWon_NoMargin(isPractice, newTbA, newTbB, target) ==
    newTbA >= target \/ newTbB >= target

\* mutant: practice mode requires the two-point margin too
tiebreakWon_PracticeMargin(isPractice, newTbA, newTbB, target) ==
    (newTbA >= target \/ newTbB >= target) /\ Abs(newTbA - newTbB) >= 2

\* scoreTiebreak: const tiebreakWon
tiebreakWon(isPractice, newTbA, newTbB, target) ==
    IF isPractice
    THEN (newTbA >= target \/ newTbB >= target)
    ELSE (newTbA >= target \/ newTbB >= target) /\ Abs(newTbA - newTbB) >= 2

\* mutant: the serve changes when the running total is even
serverChanges_EvenTotals(totalPoints) == totalPoints % 2 = 0

\* scoreTiebreak: const serverChanges
serverChanges(totalPoints) ==
    totalPoints = 1 \/ (totalPoints > 1 /\ (totalPoints - 1) % 2 = 0)

\* mutant: the side with fewer tiebreak points is taken for the winner
tiebreakWinner_Reversed(newTbA, newTbB) == IF newTbA < newTbB THEN "A" ELSE "B"

\* scoreTiebreak: const winner
tiebreakWinner(newTbA, newTbB) == IF newTbA > newTbB THEN "A" ELSE "B"

scoreTiebreak(st, team) ==
    LET i          == st.currentSetIndex + 1
        currentSet == st.sets[i]
        game       == currentSet.game
    IN  IF game.kind # "tiebreak" THEN Error("Not in tiebreak")
        ELSE
        LET newTbA      == game.tbA + (IF team = "A" THEN 1 ELSE 0)
            newTbB      == game.tbB + (IF team = "B" THEN 1 ELSE 0)
            totalPoints == newTbA + newTbB
            isPractice  == st.ruleset.bestOf = "practice"
        IN  IF tiebreakWon(isPractice, newTbA, newTbB, game.target)
            THEN LET winner == tiebreakWinner(newTbA, newTbB)
                     won    == IF winner = "A"
                               THEN [currentSet EXCEPT !.gamesA = currentSet.gamesA + 1]
                               ELSE [currentSet EXCEPT !.gamesB = currentSet.gamesB + 1]
                 IN  winSet(st,
                            [st.sets EXCEPT ![i] = [won EXCEPT !.game = freshGame]],
                            winner)
            ELSE LET newServer == IF serverChanges(totalPoints)
                                  THEN otherSide(st.server)
                                  ELSE st.server
                 IN  [st EXCEPT !.sets = [st.sets EXCEPT ![i] =
                                            [currentSet EXCEPT !.game =
                                                [game EXCEPT !.tbA = newTbA,
                                                             !.tbB = newTbB]]],
                                !.server = newServer]

\* mutant: the early return for a finished match is missing
applyPointWon_NoFinishedGuard(st, team) ==
    LET game == st.sets[st.currentSetIndex + 1].game
    IN  IF game.kind = "tiebreak" THEN scoreTiebreak(st, team)
        ELSE scoreNormalGame(st, game, team)

applyPointWon(st, team) ==
    IF st.status = "finished" THEN st
    ELSE LET game == st.sets[st.currentSetIndex + 1].game
         IN  IF game.kind = "tiebreak" THEN scoreTiebreak(st, team)
             ELSE scoreNormalGame(st, game, team)

(***************************************************************************)
(* Engine run: createMatch, then any sequence of applyPointWon calls       *)
(***************************************************************************)
NoLog == << >>

NoState == [none |-> TRUE]

CurrentSet(st) == st.sets[st.currentSetIndex + 1]

\* the scoring page is not open: the value of its variables in the engine
\* run and in the reducer run
PageIdle ==
    /\ stored = << >>
    /\ matchRecord = "none"
    /\ matchState = NoState
    /\ allEvents = << >>
    /\ loading = FALSE
    /\ inflight = << >>
    /\ applied = {}
    /\ used = [taps |-> 0, crashes |-> 0]

\* the completed sets of st in which the loser won at least one game
CloseSets(st) ==
    {i \in 1..st.currentSetIndex : st.sets[i].gamesA > 0 /\ st.sets[i].gamesB > 0}

\* a finished match takes any point (a no-op); a match in progress takes one
\* while the counters of the live set and the set history are within the bounds
WithinBounds(st) ==
    \/ st.status = "finished"
    \/ LET cs == CurrentSet(st)
       IN  /\ cs.gamesA < MaxGames
           /\ cs.gamesB < MaxGames
           /\ cs.game.kind = "tiebreak" =>
                  (cs.game.tbA < MaxTb /\ cs.game.tbB < MaxTb)
           /\ Cardinality(CloseSets(st)) <= MaxCloseSets

Init ==
    /\ \E ruleset \in Ruleset, server \in TeamSide :
           state = initMatchState("m1", ruleset, server)
    /\ prev = state
    /\ lastSide = "none"
    /\ log = NoLog
    /\ replayed = NoState
    /\ PageIdle

PointWon(side) ==
    /\ ~Threw(state)
    /\ WithinBounds(state)
    /\ prev' = state
    /\ lastSide' = side
    /\ state' = applyPointWon(state, side)
    /\ UNCHANGED <<reducerVars, pageVars>>

Next == \E side \in TeamSide : PointWon(side)

Spec == Init /\ [][Next]_vars

(***************************************************************************)
(* Events (src/unnamed/part_001, src/src/domain/tennis.test.ts)            *)
(* eventId is a string in the code (a UUID); here the id of an event is    *)
(* the number of events created before it.                                 *)
(***************************************************************************)
MatchCreatedEvent(id, matchId, ruleset, initialServer) ==
    [eventId |-> id, matchId |-> matchId, type |-> "MATCH_CREATED",
     payload |-> [ruleset |-> ruleset, initialServer |-> initialServer]]

PointWonEvent(id, matchId, team) ==
    [eventId |-> id, matchId |-> matchId, type |-> "POINT_WON",
     payload |-> [team |-> team]]

UndoEvent(id, matchId, targetEventId) ==
    [eventId |-> id, matchId |-> matchId, type |-> "UNDO",
     payload |-> [targetEventId |-> targetEventId]]

RedoEvent(id, matchId, targetEventId) ==
    [eventId |-> id, matchId |-> matchId, type |-> "REDO",
     payload |-> [targetEventId |-> targetEventId]]

MatchEndedEvent(id, matchId) ==
    [eventId |-> id, matchId |-> matchId, type |-> "MATCH_ENDED",
     payload |-> << >>]

PointAnnotatedEvent(id, matchId, pointEventId, reason) ==
    [eventId |-> id, matchId |-> matchId, type |-> "POINT_ANNOTATED",
     payload |-> [pointEventId |-> pointEventId, reason |-> reason]]

(***************************************************************************)
(* Event log reducer (src/src/domain/tennis.ts)                            *)
(***************************************************************************)
\* the first loop of getEffectiveEvents: the Set undoneIds after scanning
\* events[n..], starting from the set undone
RECURSIVE scanUndone(_, _, _)
scanUndone(events, n, undone) ==
    IF n > Len(events) THEN undone
    ELSE scanUndone(events, n + 1,
                    IF events[n].type = "UNDO"
                    THEN undone \cup {events[n].payload.targetEventId}
                    ELSE IF events[n].type = "REDO"
                    THEN undone \ {events[n].payload.targetEventId}
                    ELSE undone)

\* mutant: a POINT_ANNOTATED event voids the point it annotates, as an UNDO does
undoneIds_AnnotationVoids(events) ==
    scanUndone(events, 1, {})
        \cup {events[n].payload.pointEventId :
                  n \in {m \in 1..Len(events) : events[m].type = "POINT_ANNOTATED"}}

\* mutant: a REDO does not take its target out of the set
undoneIds_RedoIgnored(events) ==
    {events[n].payload.targetEventId :
         n \in {m \in 1..Len(events) : events[m].type = "UNDO"}}

undoneIds(events) == scanUndone(events, 1, {})

\* mutant: the filter does not drop the events whose id is in undoneIds
getEffectiveEvents_KeepsVoided(events) ==
    LET keep(e) == /\ e.type # "UNDO"
                   /\ e.type # "REDO"
                   /\ e.type # "POINT_ANNOTATED"
    IN  SelectSeq(events, keep)

\* mutant: the filter keeps the POINT_ANNOTATED events
getEffectiveEvents_KeepsAnnotations(events) ==
    LET undone == undoneIds(events)
        keep(e) == /\ e.type # "UNDO"
                   /\ e.type # "REDO"
                   /\ e.eventId \notin undone
    IN  SelectSeq(events, keep)

\* mutant: an event is dropped only for an UNDO that stands later in the list
\* than the event itself
getEffectiveEvents_LaterUndoOnly(events) ==
    LET later(e) == {n \in 1..Len(events) :
                        \E i \in 1..(n - 1) : events[i] = e}
        undone(e) == \E u \in later(e) :
                        /\ events[u].type = "UNDO"
                        /\ events[u].payload.targetEventId = e.eventId
                        /\ \A r \in later(e) :
                               (r > u /\ events[r].type = "REDO")
                                   => events[r].payload.targetEventId # e.eventId
        keep(e) == /\ e.type # "UNDO"
                   /\ e.type # "REDO"
                   /\ e.type # "POINT_ANNOTATED"
                   /\ ~undone(e)
    IN  SelectSeq(events, keep)

getEffectiveEvents(events) ==
    LET undone == undoneIds(events)
        keep(e) == /\ e.type # "UNDO"
                   /\ e.type # "REDO"
                   /\ e.type # "POINT_ANNOTATED"
                   /\ e.eventId \notin undone
    IN  SelectSeq(events, keep)

\* one iteration of replay's loop; st = NoState stands for undefined, and a
\* thrown error ends the fold
replayStep(st, event) ==
    IF st # NoState /\ Threw(st) THEN st
    ELSE IF event.type = "MATCH_CREATED"
    THEN initMatchState(event.matchId, event.payload.ruleset,
                        event.payload.initialServer)
    ELSE IF event.type = "POINT_WON" /\ st # NoState
    THEN applyPointWon(st, event.payload.team)
    ELSE st

RECURSIVE replayFold(_, _, _)
replayFold(effective, n, st) ==
    IF n > Len(effective) THEN st
    ELSE replayFold(effective, n + 1, replayStep(st, effective[n]))

\* mutant: the check for a missing seed after the loop is gone
replay_NoSeedCheck(events, startingState) ==
    LET effective == IF startingState # NoState THEN events
                     ELSE getEffectiveEvents(events)
    IN  replayFold(effective, 1, startingState)

\* mutant: the fold starts from nothing whatever startingState is
replay_IgnoresStartingState(events, startingState) ==
    LET final == replayFold(getEffectiveEvents(events), 1, NoState)
    IN  IF final = NoState
        THEN Error("No MATCH_CREATED event found and no starting state provided")
        ELSE final

\* startingState = NoState stands for the omitted optional parameter
replay(events, startingState) ==
    LET effective == IF startingState # NoState THEN events
                     ELSE getEffectiveEvents(events)
        final     == replayFold(effective, 1, startingState)
    IN  IF final = NoState
        THEN Error("No MATCH_CREATED event found and no starting state provided")
        ELSE final

(***************************************************************************)
(* Statistics (src/src/domain/tennis.ts)                                   *)
(***************************************************************************)
PointLossReason ==
    {"DOUBLE_FAULT", "ACE", "FOREHAND_ERROR", "BACKHAND_ERROR",
     "VOLLEY_ERROR", "OUT_OF_BOUNDS", "NET_ERROR", "WINNER"}

emptyTeamStats ==
    [k \in {"totalPointsWon", "unannotated"} \cup PointLossReason |-> 0]

\* the second loop of computeMatchStats: the Map annotations after scanning
\* events[n..], as a function from point ids to reasons
RECURSIVE scanAnnotations(_, _, _, _)
scanAnnotations(events, n, effectiveIds, annotations) ==
    IF n > Len(events) THEN annotations
    ELSE scanAnnotations(events, n + 1, effectiveIds,
            IF /\ events[n].type = "POINT_ANNOTATED"
               /\ events[n].payload.pointEventId \in effectiveIds
            THEN [id \in DOMAIN annotations \cup {events[n].payload.pointEventId} |->
                     IF id = events[n].payload.pointEventId
                     THEN events[n].payload.reason
                     ELSE annotations[id]]
            ELSE annotations)

\* mutant: a point with an annotation is counted as unannotated as well
RECURSIVE countPoints_AlwaysUnannotated(_, _, _, _)
countPoints_AlwaysUnannotated(effective, n, annotations, stats) ==
    IF n > Len(effective) THEN stats
    ELSE countPoints_AlwaysUnannotated(effective, n + 1, annotations,
            IF effective[n].type = "POINT_WON"
            THEN LET team    == effective[n].payload.team
                     counted == [stats[team] EXCEPT !.totalPointsWon = @ + 1,
                                                    !.unannotated = @ + 1]
                 IN  IF effective[n].eventId \in DOMAIN annotations
                     THEN [stats EXCEPT ![team] =
                              [counted EXCEPT ![annotations[effective[n].eventId]] = @ + 1]]
                     ELSE [stats EXCEPT ![team] = counted]
            ELSE stats)

\* the third loop of computeMatchStats
RECURSIVE countPoints(_, _, _, _)
countPoints(effective, n, annotations, stats) ==
    IF n > Len(effective) THEN stats
    ELSE countPoints(effective, n + 1, annotations,
            IF effective[n].type = "POINT_WON"
            THEN LET team    == effective[n].payload.team
                     counted == [stats[team] EXCEPT !.totalPointsWon = @ + 1]
                 IN  IF effective[n].eventId \in DOMAIN annotations
                     THEN [stats EXCEPT ![team] =
                              [counted EXCEPT ![annotations[effective[n].eventId]] = @ + 1]]
                     ELSE [stats EXCEPT ![team] =
                              [counted EXCEPT !.unannotated = @ + 1]]
            ELSE stats)

\* mutant: the points are counted over the whole log, undone points included
computeMatchStats_CountsUndone(events) ==
    LET effective    == getEffectiveEvents_KeepsVoided(events)
        effectiveIds == {effective[k].eventId : k \in 1..Len(effective)}
        annotations  == scanAnnotations(events, 1, effectiveIds, << >>)
    IN  countPoints(effective, 1, annotations,
                    [A |-> emptyTeamStats, B |-> emptyTeamStats])

computeMatchStats(events) ==
    LET effective    == getEffectiveEvents(events)
        effectiveIds == {effective[k].eventId : k \in 1..Len(effective)}
        annotations  == scanAnnotations(events, 1, effectiveIds, << >>)
    IN  countPoints(effective, 1, annotations,
                    [A |-> emptyTeamStats, B |-> emptyTeamStats])

(***************************************************************************)
(* Reducer run: a raw log grows by one event at a time and is replayed     *)
(* after every append, as a load of the stored log does                    *)
(***************************************************************************)
PointLossReasonsUsed == {"ACE", "DOUBLE_FAULT"}

\* the length of the opening run of l: the points right after MATCH_CREATED
\* that were all won by the side that won the first of them
RunLen(l) ==
    LET inRun(i) == /\ l[2].type = "POINT_WON"
                    /\ l[i].type = "POINT_WON"
                    /\ l[i].payload.team = l[2].payload.team
        broken   == {i \in 2..Len(l) : ~inRun(i)}
    IN  IF broken = {} THEN Len(l) - 1
        ELSE (CHOOSE i \in broken : \A j \in broken : i <= j) - 2

TailLen(l) == Len(l) - 1 - RunLen(l)

LogWithinBounds(l) == RunLen(l) <= MaxRun /\ TailLen(l) <= MaxTail

TargetIds(l) ==
    {0} \cup {l[i].eventId : i \in {j \in 1..Len(l) : j > Len(l) - TargetWindow}}
        \cup {Len(l) + 1}

\* the rulesets and initial servers of the MATCH_CREATED events of the run
ReducerRulesets == {r \in Ruleset : r.bestOf \in {"1", "practice"} /\ r.tiebreak = "7pt"}

ReducerServers == {"A"}

InitLog ==
    /\ \E ruleset \in ReducerRulesets, server \in ReducerServers :
           log = << MatchCreatedEvent(0, "m1", ruleset, server) >>
    /\ replayed = replay(log, NoState)
    /\ state = NoState
    /\ prev = NoState
    /\ lastSide = "none"
    /\ PageIdle

AppendToLog(event) ==
    /\ LogWithinBounds(Append(log, event))
    /\ log' = Append(log, event)
    /\ replayed' = replay(log', NoState)
    /\ UNCHANGED <<engineVars, pageVars>>

AppendPointWon(team) == AppendToLog(PointWonEvent(Len(log), "m1", team))

AppendUndo(target) == AppendToLog(UndoEvent(Len(log), "m1", target))

AppendRedo(target) == AppendToLog(RedoEvent(Len(log), "m1", target))

AppendPointAnnotated(target, reason) ==
    AppendToLog(PointAnnotatedEvent(Len(log), "m1", target, reason))

AppendMatchEnded == AppendToLog(MatchEndedEvent(Len(log), "m1"))

NextLog ==
    \/ \E team \in TeamSide : AppendPointWon(team)
    \/ \E target \in TargetIds(log) : AppendUndo(target)
    \/ \E target \in TargetIds(log) : AppendRedo(target)
    \/ \E target \in TargetIds(log), reason \in PointLossReasonsUsed :
           AppendPointAnnotated(target, reason)
    \/ AppendMatchEnded

ReducerSpec == InitLog /\ [][NextLog]_vars

(***************************************************************************)
(* Vocabulary of the engine claims: the last call was                      *)
(* state = applyPointWon(prev, lastSide)                                   *)
(***************************************************************************)
Acted == lastSide # "none"

\* the set the last point was played in, before and after the point
PrevSet == prev.sets[prev.currentSetIndex + 1]

PlayedSet == state.sets[prev.currentSetIndex + 1]

GamesOf(set, side) == IF side = "A" THEN set.gamesA ELSE set.gamesB

PointsOf(game, side) == IF side = "A" THEN game.pointsA ELSE game.pointsB

TbOf(game, side) == IF side = "A" THEN game.tbA ELSE game.tbB

SetsWonOf(st, side) == IF side = "A" THEN st.setsWonA ELSE st.setsWonB

\* the last point was played in a normal game / in a tiebreak of a match in progress
NormalPoint == Acted /\ prev.status = "in_progress" /\ PrevSet.game.kind = "normal"

TiebreakPoint == Acted /\ prev.status = "in_progress" /\ PrevSet.game.kind = "tiebreak"

\* the last point ended the set it was played in
SetEnded == state.status = "finished" \/ state.currentSetIndex > prev.currentSetIndex

\* the last point was played at game point for its scorer in a normal game
GamePoint ==
    /\ NormalPoint
    /\ \/ PointsOf(PrevSet.game, lastSide) = "AD"
       \/ /\ PointsOf(PrevSet.game, lastSide) = "40"
          /\ PointsOf(PrevSet.game, otherSide(lastSide)) \in {"0", "15", "30"}

\* the last point added one game to its scorer in the set it was played in
GameCredited ==
    /\ GamesOf(PlayedSet, lastSide) = GamesOf(PrevSet, lastSide) + 1
    /\ GamesOf(PlayedSet, otherSide(lastSide)) = GamesOf(PrevSet, otherSide(lastSide))

GamesUnchanged ==
    /\ PlayedSet.gamesA = PrevSet.gamesA
    /\ PlayedSet.gamesB = PrevSet.gamesB

AtDeuce(st) ==
    /\ st.status = "in_progress"
    /\ CurrentSet(st).game.kind = "normal"
    /\ CurrentSet(st).game.pointsA = "40"
    /\ CurrentSet(st).game.pointsB = "40"

(***************************************************************************)
(* C1: once a match is finished, applyPointWon for either side returns a   *)
(* state equal to its input in every field.                                *)
(***************************************************************************)
C1_FinishedAbsorbs ==
    (Acted /\ prev.status = "finished") => state = prev

\* a point for the loser has been applied to a finished match
C1_Witness ==
    /\ Acted
    /\ prev.status = "finished"
    /\ prev.winner = otherSide(lastSide)
    /\ state = prev

(***************************************************************************)
(* C4 as stated: from 40-40, a point for A, then a point for B, then one   *)
(* more point for B wins the game for B.                                   *)
(***************************************************************************)
C4_AsStated ==
    AtDeuce(state) =>
        LET s1 == applyPointWon(state, "A")
            s2 == applyPointWon(s1, "B")
            s3 == applyPointWon(s2, "B")
        IN  s3.sets[state.currentSetIndex + 1].gamesB = CurrentSet(state).gamesB + 1

(***************************************************************************)
(* C4 amended: from 40-40, a point for A gives (AD, 40); a following point *)
(* for B gives (40, 40); one more point for B gives (40, AD) with the game *)
(* counts unchanged, and only a further point for B wins the game for B.   *)
(***************************************************************************)
C4_DeuceCycle ==
    AtDeuce(state) =>
        LET i  == state.currentSetIndex + 1
            s1 == applyPointWon(state, "A")
            s2 == applyPointWon(s1, "B")
            s3 == applyPointWon(s2, "B")
            s4 == applyPointWon(s3, "B")
            g1 == s1.sets[i].game
            g2 == s2.sets[i].game
            g3 == s3.sets[i].game
        IN  /\ g1.kind = "normal" /\ g1.pointsA = "AD" /\ g1.pointsB = "40"
            /\ g2.kind = "normal" /\ g2.pointsA = "40" /\ g2.pointsB = "40"
            /\ g3.kind = "normal" /\ g3.pointsA = "40" /\ g3.pointsB = "AD"
            /\ s3.sets[i].gamesA = state.sets[i].gamesA
            /\ s3.sets[i].gamesB = state.sets[i].gamesB
            /\ s4.sets[i].gamesB = state.sets[i].gamesB + 1
            /\ s4.sets[i].gamesA = state.sets[i].gamesA

\* the swing back to deuce has been played: (AD, 40), then a point for B
C4_Witness ==
    /\ NormalPoint
    /\ lastSide = "B"
    /\ PrevSet.game.pointsA = "AD"
    /\ PrevSet.game.pointsB = "40"
    /\ AtDeuce(state)

(***************************************************************************)
(* C5: in a normal game, a scorer at 40 against 40 moves to AD and the     *)
(* opponent stays at 40; a scorer whose opponent is at AD brings both      *)
(* sides back to 40; a scorer at AD wins the game.  So no single point     *)
(* played at deuce wins the game, and deuce can be reached again from      *)
(* deuce any number of times.                                              *)
(***************************************************************************)
C5_AdvantageTransitions ==
    /\ NormalPoint =>
        LET scorer == PointsOf(PrevSet.game, lastSide)
            other  == PointsOf(PrevSet.game, otherSide(lastSide))
            after  == PlayedSet.game
        IN  /\ (scorer = "40" /\ other = "40") =>
                   /\ after.kind = "normal"
                   /\ PointsOf(after, lastSide) = "AD"
                   /\ PointsOf(after, otherSide(lastSide)) = "40"
                   /\ GamesUnchanged
                   /\ ~SetEnded
            /\ other = "AD" =>
                   /\ after.kind = "normal"
                   /\ after.pointsA = "40"
                   /\ after.pointsB = "40"
                   /\ GamesUnchanged
                   /\ ~SetEnded
            /\ scorer = "AD" => GameCredited
    /\ AtDeuce(state) =>
           \A side \in TeamSide :
               /\ applyPointWon(applyPointWon(state, side), otherSide(side)) = state
               /\ CurrentSet(applyPointWon(state, side)).gamesA = CurrentSet(state).gamesA
               /\ CurrentSet(applyPointWon(state, side)).gamesB = CurrentSet(state).gamesB

\* a game has been won from advantage
C5_Witness ==
    /\ NormalPoint
    /\ PointsOf(PrevSet.game, lastSide) = "AD"
    /\ GameCredited

(***************************************************************************)
(* C6: in a normal game a scorer below 40 advances one step along          *)
(* 0, 15, 30, 40 and the opponent's points and both game counts are        *)
(* unchanged; a scorer at 40 whose opponent is below 40 wins the game:     *)
(* the scorer's game count in that set grows by one, and unless the set    *)
(* thereby enters its tiebreak the game is reset to 0-0 with deuce false.  *)
(***************************************************************************)
StepAfter(p) == CASE p = "0" -> "15" [] p = "15" -> "30" [] p = "30" -> "40"

C6_PointProgression ==
    NormalPoint =>
        LET scorer == PointsOf(PrevSet.game, lastSide)
            other  == PointsOf(PrevSet.game, otherSide(lastSide))
            after  == PlayedSet.game
        IN  /\ scorer \in {"0", "15", "30"} =>
                   /\ after.kind = "normal"
                   /\ PointsOf(after, lastSide) = StepAfter(scorer)
                   /\ PointsOf(after, otherSide(lastSide)) = other
                   /\ GamesUnchanged
                   /\ ~SetEnded
            /\ (scorer = "40" /\ other \in {"0", "15", "30"}) =>
                   /\ GameCredited
                   /\ after.kind = "normal" =>
                          (after.pointsA = "0" /\ after.pointsB = "0" /\ ~after.deuce)
                   /\ after.kind = "tiebreak" =>
                          (PlayedSet.gamesA = 6 /\ PlayedSet.gamesB = 6)

\* a game has been won from 40 against less than 40 and the set goes on
C6_Witness ==
    /\ NormalPoint
    /\ PointsOf(PrevSet.game, lastSide) = "40"
    /\ PointsOf(PrevSet.game, otherSide(lastSide)) = "30"
    /\ GameCredited
    /\ ~SetEnded
    /\ PlayedSet.game = freshGame

(***************************************************************************)
(* C7: a game won in a normal game ends the set exactly when, after the    *)
(* increment, some side has at least 6 games and the margin is at least 2; *)
(* 6-5 never ends the set, 7-5 does, and under tiebreak policy "none" a    *)
(* set tied at 6-6 continues with normal games.                            *)
(***************************************************************************)
C7_SetWinMargin ==
    GamePoint =>
        LET gamesA == PlayedSet.gamesA
            gamesB == PlayedSet.gamesB
        IN  /\ SetEnded <=>
                   ((gamesA >= 6 \/ gamesB >= 6) /\ Abs(gamesA - gamesB) >= 2)
            /\ ({gamesA, gamesB} = {5, 6}) => ~SetEnded
            /\ ({gamesA, gamesB} = {5, 7}) => SetEnded
            /\ (prev.ruleset.tiebreak = "none" /\ gamesA = gamesB) =>
                   (~SetEnded /\ PlayedSet.game = freshGame)

\* under policy "none" a set that passed 6-6 has been won 8-6
C7_Witness ==
    /\ GamePoint
    /\ prev.ruleset.tiebreak = "none"
    /\ GamesOf(PlayedSet, lastSide) = 8
    /\ GamesOf(PlayedSet, otherSide(lastSide)) = 6
    /\ SetEnded

(***************************************************************************)
(* C8: under policy "7pt" and bestOf 1, 3 or 5 the game-winning point that *)
(* makes the set 6-6 switches its game to a tiebreak at 0-0 with target 7  *)
(* without ending the set, and the live game is a tiebreak only if the     *)
(* live set stands at 6-6; under policy "none" no state of a non-practice  *)
(* match has a tiebreak game.                                              *)
(***************************************************************************)
C8_TiebreakEntry ==
    state.ruleset.bestOf \in {"1", "3", "5"} =>
        /\ (state.ruleset.tiebreak = "7pt" /\ GamePoint
                /\ PlayedSet.gamesA = 6 /\ PlayedSet.gamesB = 6) =>
               /\ PlayedSet.game = [kind |-> "tiebreak", tbA |-> 0, tbB |-> 0,
                                    target |-> 7]
               /\ ~SetEnded
        /\ (state.ruleset.tiebreak = "7pt"
                /\ CurrentSet(state).game.kind = "tiebreak") =>
               (CurrentSet(state).gamesA = 6 /\ CurrentSet(state).gamesB = 6)
        /\ state.ruleset.tiebreak = "none" =>
               \A i \in 1..Len(state.sets) : state.sets[i].game.kind = "normal"

\* a best-of-5 match has just entered a tiebreak from 5-6 or 6-5
C8_Witness ==
    /\ GamePoint
    /\ state.ruleset.bestOf = "5"
    /\ state.ruleset.tiebreak = "7pt"
    /\ PlayedSet.gamesA = 6
    /\ PlayedSet.gamesB = 6
    /\ CurrentSet(state).game = freshTiebreak

(***************************************************************************)
(* C9: in a non-practice match a tiebreak point ends the tiebreak exactly  *)
(* when, after the increment, some side has at least 7 points and leads by *)
(* at least 2 (6-6 and 7-6 do not end it, 8-6 does); the winner's game     *)
(* count then goes from 6 to 7 and the set is credited to the winner.      *)
(***************************************************************************)
C9_TiebreakMargin ==
    (TiebreakPoint /\ prev.ruleset.bestOf # "practice") =>
        LET newA == PrevSet.game.tbA + (IF lastSide = "A" THEN 1 ELSE 0)
            newB == PrevSet.game.tbB + (IF lastSide = "B" THEN 1 ELSE 0)
            won  == (newA >= 7 \/ newB >= 7) /\ Abs(newA - newB) >= 2
        IN  /\ SetEnded <=> won
            /\ ({newA, newB} \in {{6}, {6, 7}}) => ~SetEnded
            /\ ({newA, newB} = {6, 8}) => SetEnded
            /\ ~won =>
                   /\ PlayedSet.game.kind = "tiebreak"
                   /\ PlayedSet.game.tbA = newA
                   /\ PlayedSet.game.tbB = newB
                   /\ GamesUnchanged
            /\ won =>
                   /\ GamesOf(PrevSet, lastSide) = 6
                   /\ GamesOf(PlayedSet, lastSide) = 7
                   /\ GamesOf(PlayedSet, otherSide(lastSide)) = 6
                   /\ SetsWonOf(state, lastSide) = SetsWonOf(prev, lastSide) + 1
                   /\ SetsWonOf(state, otherSide(lastSide))
                          = SetsWonOf(prev, otherSide(lastSide))

\* a tiebreak that stood at 7-6 has been won 8-6
C9_Witness ==
    /\ TiebreakPoint
    /\ prev.ruleset.bestOf # "practice"
    /\ TbOf(PrevSet.game, lastSide) = 7
    /\ TbOf(PrevSet.game, otherSide(lastSide)) = 6
    /\ SetEnded
    /\ GamesOf(PlayedSet, lastSide) = 7

(***************************************************************************)
(* C10: under bestOf "practice" the first side to reach 7 tiebreak points  *)
(* wins the match at once whatever the margin (7-6 finishes the match with *)
(* that side as winner), so every practice state in progress has both      *)
(* tiebreak scores at most 6.                                              *)
(***************************************************************************)
C10_PracticeWin ==
    state.ruleset.bestOf = "practice" =>
        /\ (TiebreakPoint /\ TbOf(PrevSet.game, lastSide) + 1 >= 7) =>
               (state.status = "finished" /\ state.winner = lastSide)
        /\ (TiebreakPoint /\ TbOf(PrevSet.game, lastSide) + 1 < 7) =>
               (state.status = "in_progress" /\ state.winner = "none")
        /\ state.status = "in_progress" =>
               /\ CurrentSet(state).game.kind = "tiebreak"
               /\ CurrentSet(state).game.tbA <= 6
               /\ CurrentSet(state).game.tbB <= 6

\* a practice tiebreak that stood at 6-6 has been won 7-6
C10_Witness ==
    /\ TiebreakPoint
    /\ prev.ruleset.bestOf = "practice"
    /\ PrevSet.game.tbA = 6
    /\ PrevSet.game.tbB = 6
    /\ state.status = "finished"
    /\ state.winner = lastSide

(***************************************************************************)
(* C11: under bestOf "practice" every reachable state has exactly one      *)
(* SetState and currentSetIndex 0, and setsNeeded is 1.                    *)
(***************************************************************************)
C11_PracticeSingleSet ==
    state.ruleset.bestOf = "practice" =>
        /\ Len(state.sets) = 1
        /\ state.currentSetIndex = 0
        /\ setsNeeded(state.ruleset) = 1

\* a practice tiebreak has been decided and no second set was started
C11_Witness ==
    /\ TiebreakPoint
    /\ prev.ruleset.bestOf = "practice"
    /\ state.status = "finished"
    /\ Len(state.sets) = 1
    /\ state.currentSetIndex = 0

(***************************************************************************)
(* C12 as stated: under bestOf "practice" the game of the single set is of *)
(* the tiebreak variant in every reachable state, in progress or finished. *)
(***************************************************************************)
C12_AsStated ==
    state.ruleset.bestOf = "practice" =>
        \A i \in 1..Len(state.sets) : state.sets[i].game.kind = "tiebreak"

(***************************************************************************)
(* C12 amended: under bestOf "practice" the game of the single set is of   *)
(* the tiebreak variant in every state in progress, and no point is ever   *)
(* played in a normal game; the point that decides the tiebreak leaves a   *)
(* fresh normal game (0-0, deuce false) in the finished state.             *)
(***************************************************************************)
C12_PracticeGameKind ==
    state.ruleset.bestOf = "practice" =>
        /\ state.status = "in_progress" => CurrentSet(state).game.kind = "tiebreak"
        /\ state.status = "finished" => CurrentSet(state).game = freshGame
        /\ ~NormalPoint

\* the deciding point of a practice tiebreak has left a fresh normal game
C12_Witness ==
    /\ TiebreakPoint
    /\ prev.ruleset.bestOf = "practice"
    /\ PrevSet.game.kind = "tiebreak"
    /\ state.status = "finished"
    /\ PlayedSet.game = freshGame

(***************************************************************************)
(* C13: with 1 set needed for practice and for best of 1, 2 for best of 3  *)
(* and 3 for best of 5, in every reachable state the match is finished     *)
(* exactly when the larger set count equals the number needed; a winner is *)
(* recorded exactly when the match is finished and is then the side whose  *)
(* set count equals the number needed; neither set count exceeds it; and   *)
(* the point that finishes the match appends no new set.                   *)
(***************************************************************************)
NeededFor(bestOf) ==
    CASE bestOf = "practice" -> 1 [] bestOf = "1" -> 1
      [] bestOf = "3" -> 2 [] bestOf = "5" -> 3

Max(a, b) == IF a >= b THEN a ELSE b

C13_MatchCompletion ==
    LET needed == NeededFor(state.ruleset.bestOf)
    IN  /\ setsNeeded(state.ruleset) = needed
        /\ state.status = "finished"
               <=> Max(state.setsWonA, state.setsWonB) = needed
        /\ state.winner # "none" <=> state.status = "finished"
        /\ state.status = "finished" =>
               /\ state.winner \in TeamSide
               /\ SetsWonOf(state, state.winner) = needed
               /\ SetsWonOf(state, otherSide(state.winner)) < needed
        /\ state.setsWonA <= needed
        /\ state.setsWonB <= needed
        /\ (Acted /\ prev.status = "in_progress" /\ state.status = "finished") =>
               /\ Len(state.sets) = Len(prev.sets)
               /\ state.currentSetIndex = prev.currentSetIndex
               /\ state.winner = lastSide

\* a best-of-3 match has just been decided in its third set
C13_Witness ==
    /\ Acted
    /\ prev.status = "in_progress"
    /\ state.status = "finished"
    /\ state.ruleset.bestOf = "3"
    /\ SetsWonOf(state, lastSide) = 2
    /\ SetsWonOf(state, otherSide(lastSide)) = 1
    /\ Len(state.sets) = 3

(***************************************************************************)
(* C14 as stated: every point that completes a normal game, the point that *)
(* ends the match included, flips the server, and every other point leaves *)
(* the server unchanged.                                                   *)
(***************************************************************************)
C14_AsStated ==
    Acted =>
        IF GamePoint THEN state.server = otherSide(prev.server)
                     ELSE state.server = prev.server

(***************************************************************************)
(* C14 amended: a point that completes a normal game flips the server when *)
(* the match goes on (the set continues, a tiebreak begins or a new set    *)
(* starts) and leaves it unchanged when it ends the match; a point played  *)
(* in a normal game without completing it, and a point applied to a        *)
(* finished match, leave the server unchanged.                             *)
(***************************************************************************)
C14_ServerAlternation ==
    /\ GamePoint =>
           IF state.status = "finished"
           THEN state.server = prev.server
           ELSE state.server = otherSide(prev.server)
    /\ (NormalPoint /\ ~GamePoint) => state.server = prev.server
    /\ (Acted /\ prev.status = "finished") => state.server = prev.server

\* a normal game has just won a set and the next set starts with the other server
C14_Witness ==
    /\ GamePoint
    /\ state.currentSetIndex = prev.currentSetIndex + 1
    /\ state.status = "in_progress"
    /\ state.server = otherSide(prev.server)

(***************************************************************************)
(* C15: a tiebreak point that does not decide the tiebreak flips the       *)
(* server exactly when the number of points played in the tiebreak after   *)
(* it is odd, in practice mode as in any other; so from the start of a     *)
(* tiebreak the first server serves one point and the sides then alternate *)
(* every two points.                                                       *)
(***************************************************************************)
C15_TiebreakRotation ==
    /\ (TiebreakPoint /\ ~SetEnded) =>
           LET total == PlayedSet.game.tbA + PlayedSet.game.tbB
           IN  /\ PlayedSet.game.kind = "tiebreak"
               /\ total = PrevSet.game.tbA + PrevSet.game.tbB + 1
               /\ IF total % 2 = 1 THEN state.server = otherSide(prev.server)
                                   ELSE state.server = prev.server
    /\ (state.status = "in_progress" /\ CurrentSet(state).game = freshTiebreak) =>
           \A a, b, c \in TeamSide :
               LET s1 == applyPointWon(state, a)
                   s2 == applyPointWon(s1, b)
                   s3 == applyPointWon(s2, c)
               IN  /\ s1.server = otherSide(state.server)
                   /\ s2.server = otherSide(state.server)
                   /\ s3.server = state.server

\* the third point of a practice tiebreak has been played and the serve changed
C15_Witness ==
    /\ TiebreakPoint
    /\ ~SetEnded
    /\ prev.ruleset.bestOf = "practice"
    /\ PlayedSet.game.tbA + PlayedSet.game.tbB = 3
    /\ state.server = otherSide(prev.server)

(***************************************************************************)
(* C20: for every ruleset, in every state reachable from createMatch by    *)
(* applyPointWon calls and for either side, applyPointWon returns a state  *)
(* and raises neither "Invalid point score" nor "Not in tiebreak".         *)
(***************************************************************************)
C20_ApplyPointWonTotal ==
    /\ ~Threw(state)
    /\ \A side \in TeamSide : ~Threw(applyPointWon(state, side))

\* a point has been applied at advantage, where the scorer's or the
\* opponent's score is outside the point progression, and a state came back
C20_Witness ==
    /\ NormalPoint
    /\ "AD" \in {PrevSet.game.pointsA, PrevSet.game.pointsB}
    /\ ~Threw(state)
    /\ state.status \in {"in_progress", "finished"}

(***************************************************************************)
(* C29: no applyPointWon call changes the entry of a set that has been     *)
(* won: only the entry at currentSetIndex can change, the entries are      *)
(* never removed, and the set-winning point of a match that goes on (never *)
(* a practice match) appends a new SetState at 0-0 with a fresh normal     *)
(* game.                                                                   *)
(***************************************************************************)
C29_CompletedSetsFrozen ==
    Acted =>
        /\ Len(state.sets) >= Len(prev.sets)
        /\ \A i \in 1..Len(prev.sets) :
               i # prev.currentSetIndex + 1 => state.sets[i] = prev.sets[i]
        /\ prev.status = "finished" => state.sets = prev.sets
        /\ state.currentSetIndex > prev.currentSetIndex =>
               /\ state.ruleset.bestOf # "practice"
               /\ state.currentSetIndex = prev.currentSetIndex + 1
               /\ Len(state.sets) = Len(prev.sets) + 1
               /\ state.sets[Len(state.sets)] =
                      [gamesA |-> 0, gamesB |-> 0,
                       game |-> [kind |-> "normal", pointsA |-> "0",
                                 pointsB |-> "0", deuce |-> FALSE]]
        /\ state.currentSetIndex = prev.currentSetIndex =>
               Len(state.sets) = Len(prev.sets)
        /\ (SetEnded /\ state.status = "in_progress") =>
               state.currentSetIndex = prev.currentSetIndex + 1

\* a point has changed the game of the third set and left the two sets won
\* before it as they were
C29_Witness ==
    /\ Acted
    /\ prev.status = "in_progress"
    /\ prev.currentSetIndex = 2
    /\ state.sets[3] # prev.sets[3]
    /\ state.sets[1] = prev.sets[1]
    /\ state.sets[2] = prev.sets[2]
    /\ state.sets[1].gamesA + state.sets[1].gamesB >= 6

(***************************************************************************)
(* C30: in every reachable state whose current game is a normal game,      *)
(* deuce is true exactly when pointsA and pointsB are both 40 or AD; it is *)
(* false in every fresh game, and a point that does not complete the game  *)
(* never turns it from true to false.                                      *)
(***************************************************************************)
C30_DeuceFlag ==
    /\ CurrentSet(state).game.kind = "normal" =>
           (CurrentSet(state).game.deuce
               <=> /\ CurrentSet(state).game.pointsA \in {"40", "AD"}
                   /\ CurrentSet(state).game.pointsB \in {"40", "AD"})
    /\ (NormalPoint /\ GameCredited /\ PlayedSet.game.kind = "normal") =>
           ~PlayedSet.game.deuce
    /\ (state.status = "in_progress" /\ state.currentSetIndex > prev.currentSetIndex) =>
           ~CurrentSet(state).game.deuce
    /\ (NormalPoint /\ PrevSet.game.deuce /\ GamesUnchanged) =>
           (PlayedSet.game.kind = "normal" /\ PlayedSet.game.deuce)

\* a point at 30-40 has brought the game to 40-40 and set the flag
C30_Witness ==
    /\ NormalPoint
    /\ PointsOf(PrevSet.game, lastSide) = "30"
    /\ PointsOf(PrevSet.game, otherSide(lastSide)) = "40"
    /\ ~PrevSet.game.deuce
    /\ PlayedSet.game.deuce
    /\ AtDeuce(state)

(***************************************************************************)
(* C37: set bookkeeping.  In every reachable state sets has exactly        *)
(* currentSetIndex + 1 entries; setsWonA + setsWonB is currentSetIndex     *)
(* while the match is in progress and currentSetIndex + 1 once it is       *)
(* finished; the number of sets never exceeds bestOf (1 for practice); and *)
(* no point makes the number of sets, currentSetIndex, setsWonA or         *)
(* setsWonB smaller.                                                       *)
(***************************************************************************)
MaxSetsFor(bestOf) ==
    CASE bestOf = "practice" -> 1 [] bestOf = "1" -> 1
      [] bestOf = "3" -> 3 [] bestOf = "5" -> 5

C37_SetBookkeeping ==
    /\ Len(state.sets) = state.currentSetIndex + 1
    /\ state.status = "in_progress" =>
           state.setsWonA + state.setsWonB = state.currentSetIndex
    /\ state.status = "finished" =>
           state.setsWonA + state.setsWonB = state.currentSetIndex + 1
    /\ Len(state.sets) <= MaxSetsFor(state.ruleset.bestOf)
    /\ Acted =>
           /\ Len(state.sets) >= Len(prev.sets)
           /\ state.currentSetIndex >= prev.currentSetIndex
           /\ state.setsWonA >= prev.setsWonA
           /\ state.setsWonB >= prev.setsWonB

\* a best-of-5 match has just been decided in its fifth set
C37_Witness ==
    /\ Acted
    /\ prev.status = "in_progress"
    /\ state.status = "finished"
    /\ state.ruleset.bestOf = "5"
    /\ Len(state.sets) = 5
    /\ state.currentSetIndex = 4
    /\ state.setsWonA + state.setsWonB = 5

(***************************************************************************)
(* C38: valid set scores.  In every reachable state of a match that is not *)
(* a practice, each completed set has a winner with at least 6 games and   *)
(* either a margin of at least 2 games, the margin being exactly 2 when    *)
(* the winner has more than 6, or the score 7-6, which occurs only under   *)
(* policy "7pt"; under policy "7pt" no side has more than 7 games in a     *)
(* set; and the set in progress never shows a score that wins the set.     *)
(***************************************************************************)
\* the positions of the completed sets of st
CompletedSets(st) ==
    IF st.status = "finished" THEN 1..Len(st.sets) ELSE 1..st.currentSetIndex

Min(a, b) == IF a <= b THEN a ELSE b

ValidFinalScore(set, policy) ==
    LET hi == Max(set.gamesA, set.gamesB)
        lo == Min(set.gamesA, set.gamesB)
    IN  /\ hi >= 6
        /\ \/ hi - lo >= 2 /\ (hi > 6 => hi - lo = 2)
           \/ hi = 7 /\ lo = 6 /\ policy = "7pt"

C38_ValidSetScores ==
    state.ruleset.bestOf # "practice" =>
        /\ \A i \in CompletedSets(state) :
               ValidFinalScore(state.sets[i], state.ruleset.tiebreak)
        /\ state.ruleset.tiebreak = "7pt" =>
               \A i \in 1..Len(state.sets) :
                   state.sets[i].gamesA <= 7 /\ state.sets[i].gamesB <= 7
        /\ state.status = "in_progress" =>
               LET live == CurrentSet(state)
                   hi   == Max(live.gamesA, live.gamesB)
                   lo   == Min(live.gamesA, live.gamesB)
               IN  /\ ~(hi >= 6 /\ hi - lo >= 2)
                   /\ hi <= 6 \/ state.ruleset.tiebreak = "none"
                   /\ live.game.kind = "tiebreak" =>
                          live.gamesA = 6 /\ live.gamesB = 6

\* the first set of a best-of-3 match has just been won 7-6 in a tiebreak
C38_Witness ==
    /\ TiebreakPoint
    /\ SetEnded
    /\ state.ruleset.bestOf = "3"
    /\ state.status = "in_progress"
    /\ Max(PlayedSet.gamesA, PlayedSet.gamesB) = 7
    /\ Min(PlayedSet.gamesA, PlayedSet.gamesB) = 6

(***************************************************************************)
(* C39: the scorer is the only beneficiary of a point.  A point won by X   *)
(* in a match in progress never adds to the tiebreak points, the games or  *)
(* the sets of the other side; whatever it completes, a game, a tiebreak,  *)
(* a set or the match, is credited to X, and a match it ends is won by X.  *)
(***************************************************************************)
C39_ScorerOnlyBeneficiary ==
    (Acted /\ prev.status = "in_progress") =>
        LET X == lastSide
            O == otherSide(lastSide)
        IN  /\ SetsWonOf(state, O) = SetsWonOf(prev, O)
            /\ GamesOf(PlayedSet, O) = GamesOf(PrevSet, O)
            /\ (PrevSet.game.kind = "tiebreak" /\ PlayedSet.game.kind = "tiebreak") =>
                   /\ TbOf(PlayedSet.game, O) = TbOf(PrevSet.game, O)
                   /\ TbOf(PlayedSet.game, X) = TbOf(PrevSet.game, X) + 1
            /\ (PrevSet.game.kind = "normal" /\ PlayedSet.game.kind = "tiebreak") =>
                   PlayedSet.game.tbA = 0 /\ PlayedSet.game.tbB = 0
            /\ GamesOf(PlayedSet, X) \in {GamesOf(PrevSet, X), GamesOf(PrevSet, X) + 1}
            /\ (TiebreakPoint /\ PlayedSet.game.kind # "tiebreak") =>
                   /\ GameCredited
                   /\ SetEnded
                   /\ TbOf(PrevSet.game, X) + 1 > TbOf(PrevSet.game, O)
            /\ GamePoint => GameCredited
            /\ SetsWonOf(state, X) \in {SetsWonOf(prev, X), SetsWonOf(prev, X) + 1}
            /\ SetEnded <=> SetsWonOf(state, X) = SetsWonOf(prev, X) + 1
            /\ SetEnded => GameCredited
            /\ state.status = "finished" => state.winner = X

\* a tiebreak in overtime has just been won 8-6, and the match with it
C39_Witness ==
    /\ TiebreakPoint
    /\ state.status = "finished"
    /\ state.winner = lastSide
    /\ state.ruleset.bestOf # "practice"
    /\ TbOf(PrevSet.game, lastSide) = 7
    /\ TbOf(PrevSet.game, otherSide(lastSide)) = 6
    /\ GameCredited

(***************************************************************************)
(* Engine run for the claim that a match can always be finished: the runs  *)
(* of Spec, and past their bounds the runs in which the side that won the  *)
(* last point goes on winning.  Points keep being played (weak fairness).  *)
(***************************************************************************)
StreakPoint(side) ==
    /\ ~Threw(state)
    /\ ~WithinBounds(state)
    /\ side = lastSide
    /\ prev' = state
    /\ lastSide' = side
    /\ state' = applyPointWon(state, side)
    /\ UNCHANGED <<reducerVars, pageVars>>

NextPoint ==
    \/ \E side \in TeamSide : PointWon(side)
    \/ \E side \in TeamSide : StreakPoint(side)

FinishSpec == Init /\ [][NextPoint]_vars /\ WF_vars(NextPoint)

(***************************************************************************)
(* C40: a match can always be finished.  For every ruleset, from every     *)
(* reachable state, a run in which side X wins every further point reaches *)
(* status "finished"; the point that finishes a match makes its scorer the *)
(* winner; and a match in progress always takes a further point.           *)
(***************************************************************************)
C40_CanAlwaysFinish ==
    /\ (<>[][lastSide' = "A"]_vars) => <>(state.status = "finished")
    /\ (<>[][lastSide' = "B"]_vars) => <>(state.status = "finished")
    /\ []((Acted /\ prev.status = "in_progress" /\ state.status = "finished") =>
              state.winner = lastSide)
    /\ [](state.status = "in_progress" => ~Threw(applyPointWon(state, "A"))
                                          /\ ~Threw(applyPointWon(state, "B"))
                                          /\ applyPointWon(state, "A") # state
                                          /\ applyPointWon(state, "B") # state)

\* a long advantage set has been won 8-6 on a point played at advantage,
\* and the match with it
C40_Witness ==
    /\ Acted
    /\ prev.status = "in_progress"
    /\ state.status = "finished"
    /\ state.winner = lastSide
    /\ state.ruleset.tiebreak = "none"
    /\ GamesOf(PlayedSet, lastSide) = 8
    /\ GamesOf(PlayedSet, otherSide(lastSide)) = 6
    /\ PointsOf(PrevSet.game, lastSide) = "AD"

(***************************************************************************)
(* Vocabulary of the reducer claims                                        *)
(***************************************************************************)
RemoveAt(l, i) == SubSeq(l, 1, i - 1) \o SubSeq(l, i + 1, Len(l))

\* l with e placed after its first pos events
InsertAt(l, pos, e) == SubSeq(l, 1, pos) \o <<e>> \o SubSeq(l, pos + 1, Len(l))

PointPositions(l) == {i \in 1..Len(l) : l[i].type = "POINT_WON"}

\* the event at position i of l is an effective POINT_WON / the last one
EffectivePoint(l, i) ==
    l[i].type = "POINT_WON" /\ l[i].eventId \notin undoneIds(l)

LastEffectivePoint(l, i) ==
    /\ EffectivePoint(l, i)
    /\ \A j \in 1..Len(l) : j > i => ~EffectivePoint(l, j)

\* the state replay(l) has built once it has folded the effective events
\* among the first n events of l (NoState before any MATCH_CREATED)
StateAt(l, n) ==
    LET undone  == undoneIds(l)
        keep(e) == /\ e.type \notin {"UNDO", "REDO", "POINT_ANNOTATED"}
                   /\ e.eventId \notin undone
    IN  replayFold(SelectSeq(SubSeq(l, 1, n), keep), 1, NoState)

\* the event at position i of l is the point that completed the match
CompletedMatch(l, i) ==
    /\ EffectivePoint(l, i)
    /\ StateAt(l, i - 1) # NoState
    /\ StateAt(l, i - 1).status = "in_progress"
    /\ StateAt(l, i).status = "finished"

\* the event at position i of l is a point that completed a game or a tiebreak
CompletedGame(l, i) ==
    /\ EffectivePoint(l, i)
    /\ StateAt(l, i - 1) # NoState
    /\ LET before == StateAt(l, i - 1)
           k      == before.currentSetIndex + 1
           after  == StateAt(l, i)
       IN  after.sets[k].gamesA + after.sets[k].gamesB
               = before.sets[k].gamesA + before.sets[k].gamesB + 1

UndoOf(l, i) == UndoEvent(Len(l), "m1", l[i].eventId)

(***************************************************************************)
(* C2 as stated: for every POINT_WON x of the log, replay(L ++ [UNDO x])   *)
(* equals replay of L with x deleted, and when x is the point that         *)
(* completed the match the result is in_progress again with no winner.     *)
(***************************************************************************)
C2_AsStated ==
    \A i \in PointPositions(log) :
        LET undone == replay(Append(log, UndoOf(log, i)), NoState)
        IN  /\ undone = replay(RemoveAt(log, i), NoState)
            /\ CompletedMatch(log, i) =>
                   (undone.status = "in_progress" /\ undone.winner = "none")

(***************************************************************************)
(* C2 amended: for every POINT_WON x of the log, replay(L ++ [UNDO x])     *)
(* equals replay of L with x deleted; when no effective POINT_WON follows  *)
(* x in L the result is the state replay had built just before x, so if x  *)
(* completed a game its game is taken back, and if x completed the match   *)
(* the result is in_progress again with no winner.                         *)
(***************************************************************************)
C2_UndoEqualsRemoval ==
    \A i \in PointPositions(log) :
        LET undone == replay(Append(log, UndoOf(log, i)), NoState)
        IN  /\ undone = replay(RemoveAt(log, i), NoState)
            /\ (LastEffectivePoint(log, i) /\ StateAt(log, i - 1) # NoState) =>
                   undone = StateAt(log, i - 1)
            /\ (LastEffectivePoint(log, i) /\ CompletedMatch(log, i)) =>
                   (undone.status = "in_progress" /\ undone.winner = "none")

\* the log ends with the UNDO of the point that completed the match, and
\* the replayed state is in progress again
C2_Witness ==
    /\ Len(log) >= 3
    /\ log[Len(log)].type = "UNDO"
    /\ \E i \in PointPositions(log) :
           /\ log[Len(log)].payload.targetEventId = log[i].eventId
           /\ CompletedMatch(SubSeq(log, 1, Len(log) - 1), i)
    /\ replayed.status = "in_progress"
    /\ replayed.winner = "none"

(***************************************************************************)
(* C3: inserting a POINT_ANNOTATED event, whatever its target and reason,  *)
(* at any position of the log leaves replay unchanged, and the log         *)
(* replays to the same state as the log without its POINT_ANNOTATED        *)
(* events.                                                                 *)
(***************************************************************************)
IsAnnotation(e) == e.type = "POINT_ANNOTATED"

NotAnnotation(e) == e.type # "POINT_ANNOTATED"

C3_AnnotationIsolation ==
    /\ \A pos \in 0..Len(log), target \in 0..(Len(log) + 1),
          reason \in PointLossReasonsUsed :
           replay(InsertAt(log, pos,
                           PointAnnotatedEvent(Len(log), "m1", target, reason)),
                  NoState) = replayed
    /\ replay(SelectSeq(log, NotAnnotation), NoState) = replayed

\* the log holds an annotation of an effective point that precedes it, and
\* an effective point follows the annotation
C3_Witness ==
    /\ ~Threw(replayed)
    /\ \E a \in 1..Len(log) :
           /\ IsAnnotation(log[a])
           /\ \E i \in PointPositions(log) :
                  /\ i < a
                  /\ log[a].payload.pointEventId = log[i].eventId
                  /\ EffectivePoint(log, i)
           /\ \E j \in PointPositions(log) : j > a /\ EffectivePoint(log, j)

(***************************************************************************)
(* Vocabulary of the claims about getEffectiveEvents                       *)
(***************************************************************************)
ScoringTypes == {"MATCH_CREATED", "POINT_WON", "MATCH_ENDED"}

\* the voided set after the first n events of l, by forward recursion
VoidedAfter(l, n) ==
    LET v[k \in 0..n] ==
            IF k = 0 THEN {}
            ELSE IF l[k].type = "UNDO" THEN v[k - 1] \cup {l[k].payload.targetEventId}
            ELSE IF l[k].type = "REDO" THEN v[k - 1] \ {l[k].payload.targetEventId}
            ELSE v[k - 1]
    IN  v[n]

\* the entries of l at the positions K, in the order of l
SubsequenceAt(l, K) ==
    [n \in 1..Cardinality(K) |->
        l[CHOOSE i \in K : Cardinality({j \in K : j <= i}) = n]]

\* e occurs in the sequence l
OccursIn(l, e) == \E k \in 1..Len(l) : l[k] = e

\* the positions of the UNDO events / REDO events of l that target id
UndosOf(l, id) ==
    {u \in 1..Len(l) : l[u].type = "UNDO" /\ l[u].payload.targetEventId = id}

RedosOf(l, id) ==
    {r \in 1..Len(l) : l[r].type = "REDO" /\ l[r].payload.targetEventId = id}

\* the event at position i of l is effective in l
EffectiveAt(l, i) == l[i].type \in ScoringTypes /\ OccursIn(getEffectiveEvents(l), l[i])

(***************************************************************************)
(* C16: getEffectiveEvents(E) is the subsequence of E, in the order of E,  *)
(* of exactly the events that are not UNDO, REDO or POINT_ANNOTATED and    *)
(* whose eventId is not in the voided set that scanning E in order yields  *)
(* (an UNDO adds its target, a REDO removes it); with no UNDO in E every   *)
(* MATCH_CREATED, POINT_WON and MATCH_ENDED event is kept.                 *)
(***************************************************************************)
C16_EffectiveEventsResult ==
    LET voided == VoidedAfter(log, Len(log))
        kept   == {i \in 1..Len(log) :
                      /\ log[i].type \notin {"UNDO", "REDO", "POINT_ANNOTATED"}
                      /\ log[i].eventId \notin voided}
        isScoring(e) == e.type \in ScoringTypes
    IN  /\ getEffectiveEvents(log) = SubsequenceAt(log, kept)
        /\ (\A n \in 1..Len(log) : log[n].type # "UNDO") =>
               getEffectiveEvents(log) = SelectSeq(log, isScoring)

\* the log holds the UNDO of a point and an annotation, and the effective
\* sequence is shorter than the log by more than its markers
C16_Witness ==
    /\ \E u \in 1..Len(log) :
           /\ log[u].type = "UNDO"
           /\ \E i \in PointPositions(log) :
                  /\ i < u
                  /\ log[u].payload.targetEventId = log[i].eventId
                  /\ ~OccursIn(getEffectiveEvents(log), log[i])
    /\ \E a \in 1..Len(log) : log[a].type = "POINT_ANNOTATED"
    /\ Len(getEffectiveEvents(log)) = Len(log) - 3
    /\ Len(getEffectiveEvents(log)) >= 3

(***************************************************************************)
(* C17: for every event x that is effective in the log L,                  *)
(* getEffectiveEvents(L ++ [UNDO x, REDO x]) = getEffectiveEvents(L) and   *)
(* replay gives the state of replay(L); UNDO x alone voids x, and a        *)
(* further UNDO x after the REDO voids x again.                            *)
(***************************************************************************)
C17_RedoRevives ==
    \A i \in 1..Len(log) :
        EffectiveAt(log, i) =>
            LET x  == log[i].eventId
                L1 == Append(log, UndoEvent(Len(log), "m1", x))
                L2 == Append(L1, RedoEvent(Len(log) + 1, "m1", x))
                L3 == Append(L2, UndoEvent(Len(log) + 2, "m1", x))
            IN  /\ getEffectiveEvents(L2) = getEffectiveEvents(log)
                /\ replay(L2, NoState) = replayed
                /\ getEffectiveEvents(L1) = getEffectiveEvents(RemoveAt(log, i))
                /\ ~OccursIn(getEffectiveEvents(L1), log[i])
                /\ getEffectiveEvents(L3) = getEffectiveEvents(L1)
                /\ ~OccursIn(getEffectiveEvents(L3), log[i])

\* the log ends with the UNDO and then the REDO of a point, and the point
\* is effective and counted in the replayed state
C17_Witness ==
    /\ Len(log) >= 4
    /\ log[Len(log) - 1].type = "UNDO"
    /\ log[Len(log)].type = "REDO"
    /\ \E i \in PointPositions(log) :
           /\ log[Len(log) - 1].payload.targetEventId = log[i].eventId
           /\ log[Len(log)].payload.targetEventId = log[i].eventId
           /\ EffectiveAt(log, i)
    /\ replayed = replay(SubSeq(log, 1, Len(log) - 2), NoState)

(***************************************************************************)
(* C18 as stated: a MATCH_CREATED, POINT_WON or MATCH_ENDED event e is     *)
(* absent from getEffectiveEvents(log) if and only if some UNDO positioned *)
(* later than e targets e's id, no REDO of that id follows that UNDO, and  *)
(* the UNDO has not itself been voided.                                    *)
(***************************************************************************)
C18_AsStated ==
    \A i \in 1..Len(log) :
        log[i].type \in ScoringTypes =>
            (~OccursIn(getEffectiveEvents(log), log[i])
                <=> \E u \in UndosOf(log, log[i].eventId) :
                        /\ u > i
                        /\ \A r \in RedosOf(log, log[i].eventId) : r < u
                        /\ log[u].eventId \notin undoneIds(log))

(***************************************************************************)
(* C18 amended: a MATCH_CREATED, POINT_WON or MATCH_ENDED event e is       *)
(* absent from getEffectiveEvents(log) if and only if some UNDO anywhere   *)
(* in the log, before or after e, targets e's id and no REDO of that id    *)
(* follows that UNDO; whether the UNDO is itself the target of another     *)
(* UNDO makes no difference.                                               *)
(***************************************************************************)
C18_EffectiveDefinition ==
    \A i \in 1..Len(log) :
        log[i].type \in ScoringTypes =>
            (~OccursIn(getEffectiveEvents(log), log[i])
                <=> \E u \in UndosOf(log, log[i].eventId) :
                        \A r \in RedosOf(log, log[i].eventId) : r < u)

\* the log holds an UNDO that precedes the point it targets, and the point
\* is not effective
C18_Witness ==
    \E i \in PointPositions(log) :
        /\ \E u \in UndosOf(log, log[i].eventId) : u < i
        /\ ~OccursIn(getEffectiveEvents(log), log[i])

(***************************************************************************)
(* C19: with no startingState, replay raises an error and returns no       *)
(* MatchState for every event list whose effective sequence holds no       *)
(* MATCH_CREATED: the empty list, a list of POINT_WON events only, a list  *)
(* whose MATCH_CREATED an UNDO has voided; with a startingState and no     *)
(* events it returns the startingState.                                    *)
(***************************************************************************)
IsPointWon(e) == e.type = "POINT_WON"

C19_ReplayNeedsSeed ==
    /\ (\A k \in 1..Len(getEffectiveEvents(log)) :
            getEffectiveEvents(log)[k].type # "MATCH_CREATED")
           => Threw(replayed)
    /\ Threw(replay(<< >>, NoState))
    /\ Threw(replay(SelectSeq(log, IsPointWon), NoState))
    /\ Threw(replay(Tail(log), NoState))
    /\ ~Threw(replayed) => replay(<< >>, replayed) = replayed

\* an UNDO has voided the MATCH_CREATED of a log with points, and replay
\* of the log has raised the error
C19_Witness ==
    /\ UndosOf(log, log[1].eventId) # {}
    /\ log[1].type = "MATCH_CREATED"
    /\ ~OccursIn(getEffectiveEvents(log), log[1])
    /\ PointPositions(log) # {}
    /\ Threw(replayed)

(***************************************************************************)
(* C21: an annotation whose target point is not effective adds nothing to  *)
(* any reason counter, and an undone point is counted in neither           *)
(* totalPointsWon nor unannotated: for each team, totalPointsWon is the    *)
(* number of its effective points, unannotated the number of those that no *)
(* annotation targets, and each reason counter the number of those whose   *)
(* last annotation carries the reason; the statistics are those of the log *)
(* without its orphaned annotations; a log with no effective POINT_WON     *)
(* gives zero in every counter of both teams.                              *)
(***************************************************************************)
\* the positions of the effective points of team in l
EffectivePointsOf(l, team) ==
    {i \in PointPositions(l) : EffectivePoint(l, i) /\ l[i].payload.team = team}

\* the positions of the POINT_ANNOTATED events of l that target id
AnnotationsOf(l, id) ==
    {a \in 1..Len(l) : l[a].type = "POINT_ANNOTATED" /\ l[a].payload.pointEventId = id}

\* the POINT_ANNOTATED event at position a of l targets no effective event
Orphaned(l, a) ==
    /\ l[a].type = "POINT_ANNOTATED"
    /\ \A i \in 1..Len(l) :
           l[i].eventId = l[a].payload.pointEventId => ~EffectiveAt(l, i)

C21_OrphanedAnnotations ==
    LET stats == computeMatchStats(log)
        last(S) == CHOOSE a \in S : \A b \in S : b <= a
        kept == {i \in 1..Len(log) : ~Orphaned(log, i)}
    IN  /\ \A team \in TeamSide :
               /\ stats[team].totalPointsWon = Cardinality(EffectivePointsOf(log, team))
               /\ stats[team].unannotated =
                      Cardinality({i \in EffectivePointsOf(log, team) :
                                      AnnotationsOf(log, log[i].eventId) = {}})
               /\ \A reason \in PointLossReason :
                      stats[team][reason] =
                          Cardinality({i \in EffectivePointsOf(log, team) :
                              /\ AnnotationsOf(log, log[i].eventId) # {}
                              /\ log[last(AnnotationsOf(log, log[i].eventId))].payload.reason
                                     = reason})
        /\ computeMatchStats(SubsequenceAt(log, kept)) = stats
        /\ (\A i \in PointPositions(log) : ~EffectivePoint(log, i)) =>
               stats = [A |-> emptyTeamStats, B |-> emptyTeamStats]

\* a point was annotated and then undone while other points stay effective,
\* and no reason counter shows the annotation
C21_Witness ==
    /\ \E a \in 1..Len(log) :
           /\ Orphaned(log, a)
           /\ \E i \in PointPositions(log) :
                  /\ i < a
                  /\ log[i].eventId = log[a].payload.pointEventId
                  /\ UndosOf(log, log[i].eventId) # {}
    /\ \E j \in PointPositions(log) : EffectivePoint(log, j)
    /\ \A team \in TeamSide, reason \in PointLossReason :
           computeMatchStats(log)[team][reason] = 0

(***************************************************************************)
(* C28: for every effective sequence E = P ++ S where P starts with        *)
(* MATCH_CREATED and S holds POINT_WON and other non-seeding events,       *)
(* replay(S, replay(P)) equals replay(E).                                  *)
(***************************************************************************)
C28_SnapshotEquivalence ==
    LET E == getEffectiveEvents(log)
    IN  (Len(E) >= 1 /\ E[1].type = "MATCH_CREATED") =>
            \A k \in 1..Len(E) :
                LET P == SubSeq(E, 1, k)
                    S == SubSeq(E, k + 1, Len(E))
                IN  (\A n \in 1..Len(S) : S[n].type # "MATCH_CREATED") =>
                        /\ replay(S, replay(P, NoState)) = replay(E, NoState)
                        /\ replay(S, replay(P, NoState)) = replayed

\* the effective sequence of the log has points on both sides of a split
\* and a MATCH_ENDED between them
C28_Witness ==
    LET E == getEffectiveEvents(log)
    IN  /\ Len(E) >= 5
        /\ E[1].type = "MATCH_CREATED"
        /\ E[2].type = "POINT_WON"
        /\ E[Len(E)].type = "POINT_WON"
        /\ \E n \in 1..Len(E) : E[n].type = "MATCH_ENDED"
        /\ ~Threw(replayed)

\* the sum of the eight reason counters of one team
ReasonTotal(teamStats) ==
    teamStats["DOUBLE_FAULT"] + teamStats["ACE"] + teamStats["FOREHAND_ERROR"]
        + teamStats["BACKHAND_ERROR"] + teamStats["VOLLEY_ERROR"]
        + teamStats["OUT_OF_BOUNDS"] + teamStats["NET_ERROR"] + teamStats["WINNER"]

\* the reason the last POINT_ANNOTATED of l for id gives
LastReason(l, id) ==
    l[CHOOSE a \in AnnotationsOf(l, id) :
          \A b \in AnnotationsOf(l, id) : b <= a].payload.reason

\* C36: statistics partition.  For every log and each team, totalPointsWon
\* is unannotated plus the sum of the eight reason counters; the two totals
\* add up to the number of effective POINT_WON events; and an effective
\* point with several POINT_ANNOTATED events is counted once, under the
\* reason of the last of them in the log.
C36_StatsPartition ==
    LET stats == computeMatchStats(log)
    IN  /\ \A team \in TeamSide :
               /\ stats[team].totalPointsWon =
                      stats[team].unannotated + ReasonTotal(stats[team])
               /\ \A reason \in PointLossReason :
                      stats[team][reason] =
                          Cardinality({i \in EffectivePointsOf(log, team) :
                              /\ AnnotationsOf(log, log[i].eventId) # {}
                              /\ LastReason(log, log[i].eventId) = reason})
        /\ stats["A"].totalPointsWon + stats["B"].totalPointsWon =
               Cardinality({i \in 1..Len(log) : EffectivePoint(log, i)})

\* an effective point carries two annotations with different reasons and
\* is counted under the second
C36_Witness ==
    \E i \in 1..Len(log) :
        /\ EffectivePoint(log, i)
        /\ Cardinality(AnnotationsOf(log, log[i].eventId)) = 2
        /\ \E a, b \in AnnotationsOf(log, log[i].eventId) :
               a < b /\ log[a].payload.reason # log[b].payload.reason
        /\ computeMatchStats(log)[log[i].payload.team]
               [LastReason(log, log[i].eventId)] = 1
        /\ computeMatchStats(log)[log[i].payload.team].totalPointsWon > 1

(***************************************************************************)
(* Scoring page (src/src/ui/pages/Scoring.tsx) over the event store        *)
(* (src/src/storage/eventRepo.ts, matchRepo.ts, db.ts).  A handler is      *)
(* asynchronous: it runs to its next await in one step, and taps, other    *)
(* handlers and a crash of the page can happen between two of its steps.   *)
(***************************************************************************)
\* the match the page is opened for (useParams)
PageMatchId == "m1"

\* the reason the annotation bar reports in the runs of the page
PageReasons == {"ACE"}

\* A match the page is opened for was created by the new-match form: the
\* match row is in_progress and MATCH_CREATED is stored with seq 0.  It is
\* either new or resumed after team A has won its first six points, one by
\* one (a practice tiebreak at 6-0, or a game and 30-0).
PageStartPoints == {0, 6}

\* null where the code holds an event id, a seq
NoId == -1

\* a stored row of db.events: the event with its seq
withSeq(event, seq) ==
    [eventId |-> event.eventId, matchId |-> event.matchId, seq |-> seq,
     type |-> event.type, payload |-> event.payload]

\* no event built yet
NoEvent == [eventId |-> NoId, matchId |-> PageMatchId, seq |-> NoId,
            type |-> "NONE", payload |-> << >>]

\* getNextSeq: one more than the seq of the last stored event
getNextSeq(events) ==
    IF Len(events) = 0 THEN 0 ELSE events[Len(events)].seq + 1

\* getMatchEvents sorts by seq.  The index [matchId+seq] is not unique, so
\* two rows can carry one seq, and rows of equal seq come back in the order
\* of their primary key, a random UUID: the row appendEvent adds lands at any
\* place that keeps the seqs sorted.
appendPositions(events, event) ==
    {p \in 0..Len(events) :
        /\ \A i \in 1..p : events[i].seq <= event.seq
        /\ \A i \in (p + 1)..Len(events) : events[i].seq >= event.seq}

\* the ids of a list of events
IdsOf(events) == {events[i].eventId : i \in 1..Len(events)}

\* lastPointEventId_* : variants of lastPointEventId
lastPointEventId_SkipsAnnotated(events) ==
    LET effective == getEffectiveEvents(events)
        points == {i \in 1..Len(effective) :
                      /\ effective[i].type = "POINT_WON"
                      /\ \A j \in 1..Len(events) :
                             events[j].type = "POINT_ANNOTATED" =>
                                 events[j].payload.pointEventId # effective[i].eventId}
    IN  IF points = {} THEN NoId
        ELSE effective[CHOOSE i \in points : \A j \in points : j <= i].eventId

\* lastPointEventId: the id of the last POINT_WON of the effective events
lastPointEventId(events) ==
    LET effective == getEffectiveEvents(events)
        points == {i \in 1..Len(effective) : effective[i].type = "POINT_WON"}
    IN  IF points = {} THEN NoId
        ELSE effective[CHOOSE i \in points : \A j \in points : j <= i].eventId

\* isLastPointAnnotated_* : variants of isLastPointAnnotated
isLastPointAnnotated_NeverAnnotated(events) ==
    lastPointEventId(events) = NoId

\* isLastPointAnnotated: no last point, or some POINT_ANNOTATED targets it
isLastPointAnnotated(events) ==
    IF lastPointEventId(events) = NoId THEN TRUE
    ELSE \E i \in 1..Len(events) :
            /\ events[i].type = "POINT_ANNOTATED"
            /\ events[i].payload.pointEventId = lastPointEventId(events)

\* canUndo: the effective events hold a POINT_WON
canUndo(events) ==
    \E i \in 1..Len(getEffectiveEvents(events)) :
        getEffectiveEvents(events)[i].type = "POINT_WON"

\* the annotation bar is rendered
annotationOffered(events) ==
    lastPointEventId(events) # NoId /\ ~isLastPointAnnotated(events)

\* loadState_* : variants of loadState
loadState_Unfiltered(events) ==
    LET final == replayFold(events, 1, NoState)
    IN  IF final = NoState
        THEN Error("No MATCH_CREATED event found and no starting state provided")
        ELSE final

\* the state the load effect and handleUndo build from a list of events
loadState(events) == replay(getEffectiveEvents(events), NoState)

\* stepAfter_* : variants of stepAfter
stepAfter_ApplyFirst(pc, statusUpdate) ==
    CASE pc = "getNextSeq" -> "apply"
      [] pc = "apply" -> "appendEvent"
      [] pc = "appendEvent" ->
            IF statusUpdate = "none" THEN "done" ELSE "updateMatchStatus"
      [] OTHER -> "done"

\* the order of a handler's steps: await getNextSeq, await appendEvent, the
\* updates of the React state, and await updateMatchStatus where the status
\* of the match has changed
stepAfter(pc, statusUpdate) ==
    CASE pc = "getNextSeq" -> "appendEvent"
      [] pc = "appendEvent" -> "apply"
      [] pc = "apply" ->
            IF statusUpdate = "none" THEN "done" ELSE "updateMatchStatus"
      [] OTHER -> "done"

\* a handler invocation at its first await, with the values its closure
\* captured from the render it was created in
Invocation(handler, team, reason, target) ==
    [handler |-> handler, pc |-> "getNextSeq", team |-> team, reason |-> reason,
     target |-> target, matchState |-> matchState, allEvents |-> allEvents,
     applied |-> applied, event |-> NoEvent, statusUpdate |-> "none"]

\* the event ids in use: crypto.randomUUID() returns one that is not
UsedIds ==
    IdsOf(stored) \cup {inflight[i].event.eventId : i \in 1..Len(inflight)}

NextEventId == 1 + CHOOSE n \in UsedIds \cup {0} : \A m \in UsedIds : m <= n

\* invocation i moves on to its next step, or returns
Advance(i, task) ==
    IF stepAfter(task.pc, task.statusUpdate) = "done"
    THEN RemoveAt(inflight, i)
    ELSE [inflight EXCEPT ![i] =
             [task EXCEPT !.pc = stepAfter(task.pc, task.statusUpdate)]]

\* MATCH_CREATED and k points of team A, stored with seq 0..k
StartLog(ruleset, server, k) ==
    [i \in 1..(k + 1) |->
        IF i = 1 THEN withSeq(MatchCreatedEvent(0, PageMatchId, ruleset, server), 0)
        ELSE withSeq(PointWonEvent(i - 1, PageMatchId, "A"), i - 1)]

PageInit ==
    /\ \E ruleset \in ReducerRulesets, server \in ReducerServers,
          k \in PageStartPoints :
           stored = StartLog(ruleset, server, k)
    /\ matchRecord = "in_progress"
    /\ matchState = NoState
    /\ allEvents = << >>
    /\ loading = TRUE
    /\ inflight = << >>
    /\ applied = {}
    /\ used = [taps |-> 0, crashes |-> 0]
    /\ state = NoState
    /\ prev = NoState
    /\ lastSide = "none"
    /\ log = NoLog
    /\ replayed = NoState

\* the load effect: read the stored events and replay the effective ones
Load ==
    /\ loading
    /\ allEvents' = stored
    /\ IF Len(stored) > 0 /\ ~Threw(loadState(stored))
       THEN /\ matchState' = loadState(stored)
            /\ applied' = IdsOf(getEffectiveEvents(stored))
            /\ loading' = FALSE
       ELSE /\ Len(stored) = 0
            /\ loading' = FALSE
            /\ UNCHANGED <<matchState, applied>>
    /\ UNCHANGED <<stored, matchRecord, inflight, used, engineVars, reducerVars>>

\* a tap is taken while fewer than limit invocations are in flight
TapAllowed(limit) ==
    /\ ~loading
    /\ matchState # NoState
    /\ Len(inflight) < limit
    /\ used.taps < MaxTaps

Tap(task) ==
    /\ inflight' = Append(inflight, task)
    /\ used' = [used EXCEPT !.taps = @ + 1]
    /\ UNCHANGED <<stored, matchRecord, matchState, allEvents, loading, applied,
                   engineVars, reducerVars>>

\* handleScore up to its first await
handleScore(team, limit) ==
    /\ TapAllowed(limit)
    /\ matchState.status # "finished"
    /\ Tap(Invocation("handleScore", team, "none", NoId))

\* handleUndo up to its first await
handleUndo(limit) ==
    /\ TapAllowed(limit)
    /\ canUndo(allEvents)
    /\ Tap(Invocation("handleUndo", "none", "none", lastPointEventId(allEvents)))

\* handleAnnotate up to its first await
handleAnnotate(reason, limit) ==
    /\ TapAllowed(limit)
    /\ lastPointEventId(allEvents) # NoId
    /\ ~isLastPointAnnotated(allEvents)
    /\ Tap(Invocation("handleAnnotate", "none", reason, lastPointEventId(allEvents)))

\* the event a handler builds once getNextSeq has answered
EventOf(task, seq) ==
    withSeq(CASE task.handler = "handleScore" ->
                     PointWonEvent(NextEventId, PageMatchId, task.team)
              [] task.handler = "handleUndo" ->
                     UndoEvent(NextEventId, PageMatchId, task.target)
              [] OTHER ->
                     PointAnnotatedEvent(NextEventId, PageMatchId, task.target,
                                         task.reason),
            seq)

\* await getNextSeq answers from the rows stored at that moment
GetNextSeqStep(i) ==
    /\ inflight[i].pc = "getNextSeq"
    /\ inflight' = Advance(i, [inflight[i] EXCEPT
                                   !.event = EventOf(inflight[i], getNextSeq(stored))])
    /\ UNCHANGED <<stored, matchRecord, matchState, allEvents, loading, applied,
                   used, engineVars, reducerVars>>

\* await appendEvent adds the row
AppendEventStep(i) ==
    /\ inflight[i].pc = "appendEvent"
    /\ \E p \in appendPositions(stored, inflight[i].event) :
           stored' = InsertAt(stored, p, inflight[i].event)
    /\ inflight' = Advance(i, inflight[i])
    /\ UNCHANGED <<matchRecord, matchState, allEvents, loading, applied,
                   used, engineVars, reducerVars>>

\* handleScore after appendEvent: the point is applied to the matchState of
\* the closure and added to the current allEvents
ScoreApply(i) ==
    LET task == inflight[i]
        newState == applyPointWon(task.matchState, task.team)
    IN  /\ task.handler = "handleScore"
        /\ task.pc = "apply"
        /\ matchState' = newState
        /\ allEvents' = Append(allEvents, task.event)
        /\ applied' = task.applied \cup {task.event.eventId}
        /\ inflight' = Advance(i, [task EXCEPT !.statusUpdate =
                           IF newState.status = "finished" THEN "finished"
                           ELSE "none"])
        /\ UNCHANGED <<stored, matchRecord, loading, used, engineVars, reducerVars>>

\* handleUndo after appendEvent: the allEvents of the closure with the UNDO
\* replaces allEvents and is replayed
UndoApply(i) ==
    LET task == inflight[i]
        newAllEvents == Append(task.allEvents, task.event)
        newState == loadState(newAllEvents)
    IN  /\ task.handler = "handleUndo"
        /\ task.pc = "apply"
        /\ allEvents' = newAllEvents
        /\ IF Threw(newState)
           THEN /\ inflight' = RemoveAt(inflight, i)
                /\ UNCHANGED <<matchState, applied>>
           ELSE /\ matchState' = newState
                /\ applied' = IdsOf(getEffectiveEvents(newAllEvents))
                /\ inflight' = Advance(i, [task EXCEPT !.statusUpdate =
                                   IF /\ newState.status = "in_progress"
                                      /\ task.matchState.status = "finished"
                                   THEN "in_progress" ELSE "none"])
        /\ UNCHANGED <<stored, matchRecord, loading, used, engineVars, reducerVars>>

\* handleAnnotate after appendEvent: the annotation is added to allEvents
AnnotateApply(i) ==
    LET task == inflight[i]
    IN  /\ task.handler = "handleAnnotate"
        /\ task.pc = "apply"
        /\ allEvents' = Append(allEvents, task.event)
        /\ inflight' = Advance(i, task)
        /\ UNCHANGED <<stored, matchRecord, matchState, loading, applied, used,
                       engineVars, reducerVars>>

\* await updateMatchStatus writes the status of the match row
UpdateMatchStatusStep(i) ==
    /\ inflight[i].pc = "updateMatchStatus"
    /\ matchRecord' = inflight[i].statusUpdate
    /\ inflight' = Advance(i, inflight[i])
    /\ UNCHANGED <<stored, matchState, allEvents, loading, applied, used,
                   engineVars, reducerVars>>

\* the page dies while handlers are in flight and is opened again: what was
\* in memory is lost, what was stored stays
Crash ==
    /\ inflight # << >>
    /\ used.crashes < MaxCrashes
    /\ inflight' = << >>
    /\ matchState' = NoState
    /\ allEvents' = << >>
    /\ applied' = {}
    /\ loading' = TRUE
    /\ used' = [used EXCEPT !.crashes = @ + 1]
    /\ UNCHANGED <<stored, matchRecord, engineVars, reducerVars>>

\* taps are taken whatever is in flight
NextPage ==
    \/ Load
    \/ \E team \in TeamSide : handleScore(team, MaxInflight)
    \/ handleUndo(MaxInflight)
    \/ \E reason \in PageReasons : handleAnnotate(reason, MaxInflight)
    \/ \E i \in 1..Len(inflight) : GetNextSeqStep(i)
    \/ \E i \in 1..Len(inflight) : AppendEventStep(i)
    \/ \E i \in 1..Len(inflight) : ScoreApply(i)
    \/ \E i \in 1..Len(inflight) : UndoApply(i)
    \/ \E i \in 1..Len(inflight) : AnnotateApply(i)
    \/ \E i \in 1..Len(inflight) : UpdateMatchStatusStep(i)
    \/ Crash

PageSpec == PageInit /\ [][NextPage]_vars

\* a tap is taken only when the handler of the tap before it has returned
NextSeqPage ==
    \/ Load
    \/ \E team \in TeamSide : handleScore(team, 1)
    \/ handleUndo(1)
    \/ \E reason \in PageReasons : handleAnnotate(reason, 1)
    \/ \E i \in 1..Len(inflight) : GetNextSeqStep(i)
    \/ \E i \in 1..Len(inflight) : AppendEventStep(i)
    \/ \E i \in 1..Len(inflight) : ScoreApply(i)
    \/ \E i \in 1..Len(inflight) : UndoApply(i)
    \/ \E i \in 1..Len(inflight) : AnnotateApply(i)
    \/ \E i \in 1..Len(inflight) : UpdateMatchStatusStep(i)
    \/ Crash

SeqPageSpec == PageInit /\ [][NextSeqPage]_vars

(***************************************************************************)
(* Claims about the scoring page                                           *)
(***************************************************************************)
\* C22: write-then-apply.  In every reachable state of the scoring page,
\* whatever the interleaving of handleScore, handleUndo and handleAnnotate,
\* every event of the in-memory event list and every event the in-memory
\* MatchState was built from is a stored row: memory is never ahead of the
\* store.
C22_WriteThenApply ==
    /\ \A i \in 1..Len(allEvents) : OccursIn(stored, allEvents[i])
    /\ applied \subseteq IdsOf(stored)
    /\ \A i \in 1..Len(inflight) :
           /\ \A j \in 1..Len(inflight[i].allEvents) :
                  OccursIn(stored, inflight[i].allEvents[j])
           /\ inflight[i].applied \subseteq IdsOf(stored)

\* two handlers are in flight, one of them between its appendEvent and its
\* update of the React state: its event is stored and not yet in memory
C22_Witness ==
    /\ Len(inflight) = 2
    /\ \E i \in 1..Len(inflight) :
           /\ inflight[i].pc = "apply"
           /\ inflight[i].event.eventId \in IdsOf(stored)
           /\ inflight[i].event.eventId \notin IdsOf(allEvents)
           /\ inflight[i].event.eventId \notin applied
    /\ matchState # NoState

\* the event of invocation i is a stored row exactly when its appendEvent
\* has completed
AppendCompleted(i) == inflight[i].pc \in {"apply", "updateMatchStatus"}

\* C23: crash safety.  Whatever step of a handler the page dies at, the
\* stored log is left as it was: it holds the event of every invocation
\* whose appendEvent had completed and of no other, and replay folds it.
\* The load that follows builds exactly replay of the stored log.
C23_CrashSafety ==
    /\ [](/\ ~Threw(replay(stored, NoState))
          /\ \A i \in 1..Len(inflight) :
                 AppendCompleted(i) <=> OccursIn(stored, inflight[i].event))
    /\ [][/\ Crash => stored' = stored
          /\ Load => /\ matchState' = replay(stored, NoState)
                     /\ allEvents' = stored
                     /\ stored' = stored]_vars

\* the page died after a handleScore had stored the point that ends the
\* match and before it had updated the match row; the page is loaded again
C23_Witness ==
    /\ used.crashes = 1
    /\ ~loading
    /\ inflight = << >>
    /\ matchState = replay(stored, NoState)
    /\ matchState.status = "finished"
    /\ matchRecord = "in_progress"

\* the rows of after that before does not hold
AddedRows(before, after) ==
    {i \in 1..Len(after) : ~OccursIn(before, after[i])}

\* C24: seq is strictly increasing per match.  Under every interleaving of
\* handler invocations at their await points, an event that is stored
\* carries a seq strictly greater than the seq of every event stored before
\* it, so no two stored events share a seq.
C24_SeqStrictlyIncreasing ==
    /\ [](\A i, j \in 1..Len(stored) : i # j => stored[i].seq # stored[j].seq)
    /\ [][\A i \in AddedRows(stored, stored') : \A j \in 1..Len(stored) :
              stored[j].seq < stored'[i].seq]_vars

\* two taps were handled at the same time: both handlers have returned and
\* their two events are stored with one seq
C24_Witness ==
    /\ inflight = << >>
    /\ \E i, j \in 1..Len(stored) : i # j /\ stored[i].seq = stored[j].seq

\* C25: the event log is append-only.  Every step of a score, undo or
\* annotate operation leaves the stored rows as they are and adds at most
\* one row, and the stored log before the step is a prefix, in seq order,
\* of the stored log after it; an undo leaves the POINT_WON it voids in
\* place.
C25_AppendOnlyPrefix ==
    [][stored' # stored =>
           /\ Len(stored') = Len(stored) + 1
           /\ SubSeq(stored', 1, Len(stored)) = stored]_vars

\* the positions of the POINT_ANNOTATED events of l that target id
AnnotationsFor(l, id) ==
    {i \in 1..Len(l) : l[i].type = "POINT_ANNOTATED" /\ l[i].payload.pointEventId = id}

\* the handler in flight is a handleAnnotate (taps taken one after the other)
Annotating == Len(inflight) = 1 /\ inflight[1].handler = "handleAnnotate"

UnannotatedPoints(l) ==
    {i \in 1..Len(l) : EffectivePoint(l, i) /\ AnnotationsFor(l, l[i].eventId) = {}}

\* the page is rendered with its buttons
PageShown == ~loading /\ matchState # NoState

\* C27 as stated: the point identified for annotation is the most recent
\* effective POINT_WON that no POINT_ANNOTATED targets, and it is offered
\* whenever the effective events hold an unannotated POINT_WON.
C27_AsStated ==
    PageShown =>
        IF UnannotatedPoints(allEvents) = {}
        THEN ~annotationOffered(allEvents)
        ELSE /\ annotationOffered(allEvents)
             /\ \E i \in UnannotatedPoints(allEvents) :
                    /\ \A j \in UnannotatedPoints(allEvents) : j <= i
                    /\ lastPointEventId(allEvents) = allEvents[i].eventId

\* C27: the point the page identifies is the most recent effective
\* POINT_WON, annotated or not, and the annotation bar is offered exactly
\* when that point exists and no POINT_ANNOTATED targets it; the point
\* offered is then the most recent unannotated effective point as well.  An
\* earlier unannotated point is not offered while a later effective point
\* exists.
C27_AnnotationTarget ==
    PageShown =>
        /\ \A i \in 1..Len(allEvents) :
               LastEffectivePoint(allEvents, i) =>
                   /\ lastPointEventId(allEvents) = allEvents[i].eventId
                   /\ annotationOffered(allEvents)
                          <=> i \in UnannotatedPoints(allEvents)
        /\ (\A i \in 1..Len(allEvents) : ~EffectivePoint(allEvents, i)) =>
               /\ lastPointEventId(allEvents) = NoId
               /\ ~annotationOffered(allEvents)
        /\ annotationOffered(allEvents) =>
               \E i \in UnannotatedPoints(allEvents) :
                   /\ \A j \in UnannotatedPoints(allEvents) : j <= i
                   /\ lastPointEventId(allEvents) = allEvents[i].eventId

\* the last effective point is annotated, an earlier effective point is
\* not, and nothing is offered
C27_Witness ==
    /\ PageShown
    /\ inflight = << >>
    /\ UnannotatedPoints(allEvents) # {}
    /\ \E i \in 1..Len(allEvents) :
           /\ LastEffectivePoint(allEvents, i)
           /\ AnnotationsFor(allEvents, allEvents[i].eventId) # {}
    /\ ~annotationOffered(allEvents)

\* no handler is in flight and the page shows the match
Quiescent == inflight = << >> /\ PageShown

\* C31: live state equals replayed state under interleaving.  Whatever the
\* interleaving of handleScore, handleUndo and handleAnnotate at their
\* await points, two taps before the first has completed included, once no
\* handler is in flight the in-memory MatchState is replay of the stored
\* log and the in-memory event list is the stored log.
C31_LiveEqualsReplayed ==
    Quiescent =>
        /\ matchState = replay(stored, NoState)
        /\ allEvents = stored

\* two taps were handled at the same time, no crash happened, every handler
\* has returned, and the score on the page is not the score of the store
C31_Witness ==
    /\ Quiescent
    /\ used.crashes = 0
    /\ IdsOf(allEvents) = IdsOf(stored)
    /\ matchState # replay(stored, NoState)

\* C33: no point is logged after the match is decided.  Whatever the
\* interleaving of handleScore invocations, no POINT_WON is stored once the
\* effective events already stored finish the match, and every effective
\* POINT_WON of the stored log changes the replayed state.
C33_NoPointAfterDecided ==
    /\ [](\A i \in 1..Len(stored) :
              EffectivePoint(stored, i) => StateAt(stored, i) # StateAt(stored, i - 1))
    /\ [][\A i \in AddedRows(stored, stored') :
              stored'[i].type = "POINT_WON" =>
                  replay(stored, NoState).status # "finished"]_vars

\* match point was tapped twice: both handlers have returned, and the
\* stored log holds an effective POINT_WON behind the point that decided
\* the match
C33_Witness ==
    /\ inflight = << >>
    /\ used.crashes = 0
    /\ \E i \in 1..Len(stored) :
           /\ EffectivePoint(stored, i)
           /\ StateAt(stored, i - 1).status = "finished"
           /\ StateAt(stored, i) = StateAt(stored, i - 1)

\* C34: undo targets.  Whatever the interleaving of handleUndo and
\* handleScore invocations, every UNDO that is stored targets a POINT_WON,
\* the most recent effective POINT_WON of the stored log at the moment the
\* UNDO is stored, and no POINT_WON id is the target of two UNDO events, so
\* each completed undo tap removes exactly one point.
C34_UndoTargets ==
    /\ [](\A i \in 1..Len(stored) : Cardinality(UndosOf(stored, stored[i].eventId)) <= 1)
    /\ [][\A u \in AddedRows(stored, stored') :
              stored'[u].type = "UNDO" =>
                  \E i \in 1..Len(stored) :
                      /\ stored[i].eventId = stored'[u].payload.targetEventId
                      /\ stored[i].type = "POINT_WON"
                      /\ LastEffectivePoint(stored, i)]_vars

\* undo was tapped twice: both handlers have returned, two UNDO events for
\* one POINT_WON are stored, and only that one point is removed
C34_Witness ==
    /\ inflight = << >>
    /\ used.crashes = 0
    /\ \E i \in 1..Len(stored) :
           /\ stored[i].type = "POINT_WON"
           /\ Cardinality(UndosOf(stored, stored[i].eventId)) = 2
           /\ \A j \in 1..Len(stored) :
                  (stored[j].type = "POINT_WON" /\ j # i) => EffectivePoint(stored, j)

\* C35: the match record tracks the log.  Whenever no scoring handler is in
\* flight and the match has not been cancelled, the match row has status
\* "finished" exactly when replay of the stored log has; this holds after a
\* reload that interrupted a handler between its awaits too.
C35_RecordTracksLog ==
    (inflight = << >> /\ matchRecord # "cancelled") =>
        (matchRecord = "finished" <=> replay(stored, NoState).status = "finished")

\* the page died between the appendEvent of the point that decided the
\* match and updateMatchStatus, and was loaded again: the match is finished
\* on the page and in the log, the buttons are disabled, and the match row
\* still says in_progress
C35_Witness ==
    /\ Quiescent
    /\ used.crashes = 1
    /\ matchState.status = "finished"
    /\ replay(stored, NoState).status = "finished"
    /\ matchRecord = "in_progress"

\* the stack of a stored log: a POINT_WON pushes itself, an UNDO pops
RECURSIVE StackOf(_, _, _)
StackOf(l, n, stack) ==
    IF n > Len(l) THEN stack
    ELSE StackOf(l, n + 1,
            CASE l[n].type = "POINT_WON" -> Append(stack, l[n])
              [] l[n].type = "UNDO" /\ stack # << >> -> SubSeq(stack, 1, Len(stack) - 1)
              [] OTHER -> stack)

\* applyPointWon folded over the sides of stack[n..]
RECURSIVE FoldSides(_, _, _)
FoldSides(st, stack, n) ==
    IF n > Len(stack) THEN st
    ELSE FoldSides(applyPointWon(st, stack[n].payload.team), stack, n + 1)

\* the state a new match starts in
StartState(l) ==
    initMatchState(l[1].matchId, l[1].payload.ruleset, l[1].payload.initialServer)

\* C32: event-sourced undo refines a stack.  With the taps taken one after
\* the other, whenever no handler is in flight the in-memory MatchState is
\* the fold of applyPointWon from the initial state over the stack of the
\* sides, pushed by each accepted score and popped by each undo; undo is
\* possible exactly when the stack is not empty, and a handleUndo in flight
\* targets the top of the stack; so k undos after n >= k points give the
\* state after the first n - k points.
C32_UndoRefinesStack ==
    LET stack == StackOf(stored, 1, << >>)
    IN  /\ Quiescent =>
               /\ matchState = FoldSides(StartState(stored), stack, 1)
               /\ canUndo(allEvents) <=> stack # << >>
        /\ \A i \in 1..Len(inflight) :
               (inflight[i].handler = "handleUndo" /\ ~AppendCompleted(i)) =>
                   /\ stack # << >>
                   /\ inflight[i].target = stack[Len(stack)].eventId

\* a point was scored and undone on a new match with no point stored: the
\* stack is empty again, the page shows the initial state, and Undo is
\* disabled
C32_Witness ==
    /\ Quiescent
    /\ used.crashes = 0
    /\ \E i \in 1..Len(stored) : stored[i].type = "UNDO"
    /\ StackOf(stored, 1, << >>) = << >>
    /\ matchState = StartState(stored)
    /\ ~canUndo(allEvents)

====
